---- MODULE Spec2Model ----
(***************************************************************************)
(* A model of the Pilla compiler front end: the scanner (Lexer), the       *)
(* recursive-descent parser (Parser), the semantic analyser (Semantics)    *)
(* and the driver that runs them in sequence (main).                       *)
(*                                                                         *)
(* Text is modelled as a sequence of one-character strings, so that the    *)
(* scanner's substr calls and the keyword comparison are computed and not  *)
(* assumed.  Positions are 0-based as in the source; sourcecode[i + 1] is  *)
(* the C++ sourcecode[i].                                                  *)
(***************************************************************************)
EXTENDS Integers, Sequences, FiniteSets, TLC

VARIABLES
    pc,          \* where the pipeline stands
    sourcecode,  \* Lexer::sourcecode
    lexer,       \* Lexer's cursor fields: currentPos, line, column, tokenStart*
    tokens,      \* the vector scanTokens builds, then Parser::tokens
    parser,      \* Parser::current and the functions vector of Parser::parse
    ast,         \* the unique_ptr<ProgramAST> parse returns: <<>> is nullptr
    sema,        \* the Semantics object
    walk,        \* where Semantics::analyze stands: accept, function, statement
    verdict,     \* what analyze returned: <<>> until it returns
    trace,       \* history: the declarations and visits analyze has made
    codegen,     \* what main has asked of Codegen
    exitCode,    \* what main returned: <<>> until it returns
    cerr         \* the lines written to std::cerr, in order

lexVars == <<sourcecode, lexer>>
parseVars == <<parser, ast>>
semaVars == <<sema, walk, verdict, trace>>
mainVars == <<codegen, exitCode>>
vars == <<pc, lexVars, tokens, parseVars, semaVars, mainVars, cerr>>

(***************************************************************************)
(* Bounds of the model                                                     *)
(***************************************************************************)
MaxSrcLen == 4
MaxLiveLen == 3
MaxTokens == 11
MaxMainTokens == 9
MaxStmts == 2
MaxArgs == 2
MaxBlankLen == 5

(***************************************************************************)
(* Characters                                                              *)
(***************************************************************************)
NUL == "NUL"  \* the '\0' peek() returns at the end of the input

Digits == {"0", "1", "2", "3", "4", "5", "6", "7", "8", "9"}

Alphas ==
    {"a", "b", "c", "d", "e", "f", "g", "h", "i", "j", "k", "l", "m",
     "n", "o", "p", "q", "r", "s", "t", "u", "v", "w", "x", "y", "z"}

\* The characters the scanner specification draws its sources from: a
\* representative of each class scanToken distinguishes.
LexAlphabet ==
    {" ", "\n", "/", "*", "\"", "'", "\\", "!", "=", "a", "1", "@"}

LexSources(maxLen) == UNION {[1..n -> LexAlphabet] : n \in 0..maxLen}

\* The characters of the sources made of blanks and comments: the four
\* skipWhitespace skips, the two that open and close comments, and one that
\* is neither.
BlankAlphabet == {" ", "\t", "\r", "\n", "/", "*", "a"}

BlankSources(maxLen) == UNION {[1..n -> BlankAlphabet] : n \in 0..maxLen}

(***************************************************************************)
(* Fixed lexemes                                                           *)
(***************************************************************************)
Str_SIGNING_OFF == <<"S", "I", "G", "N", "I", "N", "G", "_", "O", "F", "F">>
Str_UnterminatedString ==
    <<"U", "n", "t", "e", "r", "m", "i", "n", "a", "t", "e", "d", " ",
      "s", "t", "r", "i", "n", "g">>
Str_EmptyChar ==
    <<"E", "m", "p", "t", "y", " ", "c", "h", "a", "r", "a", "c", "t", "e", "r",
      " ", "l", "i", "t", "e", "r", "a", "l">>
Str_UnterminatedChar ==
    <<"U", "n", "t", "e", "r", "m", "i", "n", "a", "t", "e", "d", " ",
      "c", "h", "a", "r", "a", "c", "t", "e", "r", " ",
      "l", "i", "t", "e", "r", "a", "l">>

Str_int == <<"i", "n", "t">>
Str_return == <<"r", "e", "t", "u", "r", "n">>
Str_float == <<"f", "l", "o", "a", "t">>
Str_char == <<"c", "h", "a", "r">>
Str_string == <<"s", "t", "r", "i", "n", "g">>
Str_double == <<"d", "o", "u", "b", "l", "e">>
Str_void == <<"v", "o", "i", "d">>
Str_if == <<"i", "f">>
Str_else == <<"e", "l", "s", "e">>
Str_while == <<"w", "h", "i", "l", "e">>
Str_for == <<"f", "o", "r">>

(***************************************************************************)
(* Lexer                                                                   *)
(***************************************************************************)
\* Lexer::Lexer: currentPos(0), line(1), column(1).  tokenStartLine and
\* tokenStartColumn are not initialised by the constructor; scanToken writes
\* both before makeToken reads them, so their first value is never observed.
LexerCtor ==
    [currentPos |-> 0, line |-> 1, column |-> 1,
     tokenStartLine |-> 0, tokenStartColumn |-> 0]

Lexer_isAtEnd(L) == L.currentPos >= Len(sourcecode)

Lexer_peek(L) == IF Lexer_isAtEnd(L) THEN NUL ELSE sourcecode[L.currentPos + 1]

\* sourcecode[i] for i <= length(): std::string yields '\0' at i = length().
charAt(i) == IF i < Len(sourcecode) THEN sourcecode[i + 1] ELSE NUL

advance(L) ==
    IF ~Lexer_isAtEnd(L)
    THEN [L EXCEPT !.currentPos = @ + 1, !.column = @ + 1]
    ELSE L

makeToken(L, type, lexeme) ==
    [type |-> type, lexeme |-> lexeme,
     line |-> L.tokenStartLine, column |-> L.tokenStartColumn]

\* sourcecode.substr(start, count)
substr(start, count) == SubSeq(sourcecode, start + 1, start + count)

\* A faulty newline that resets the column and keeps the line; it shows
\* that TokenPositionsOrdered tells the difference.
countLine_KeepLine(L) == [L EXCEPT !.column = 0]

\* line++; column = 0;
countLine(L) == [L EXCEPT !.line = @ + 1, !.column = 0]

RECURSIVE skipWhitespace(_)
skipWhitespace(L) ==
    IF Lexer_isAtEnd(L) THEN L
    ELSE LET c == Lexer_peek(L) IN
         IF c \in {" ", "\r", "\t"} THEN skipWhitespace(advance(L))
         ELSE IF c = "\n" THEN skipWhitespace(advance(countLine(L)))
         ELSE L

\* while (peek() != '\n' && !isAtEnd()) advance();
RECURSIVE skipLineComment(_)
skipLineComment(L) ==
    IF Lexer_peek(L) # "\n" /\ ~Lexer_isAtEnd(L)
    THEN skipLineComment(advance(L))
    ELSE L

\* A faulty loop that takes the first '*' for the end of the comment; it
\* shows that BlankSourceScansToEOF tells the difference.
RECURSIVE skipBlockComment_StopAtStar(_)
skipBlockComment_StopAtStar(L) ==
    IF Lexer_isAtEnd(L) THEN L
    ELSE IF Lexer_peek(L) = "*" THEN advance(L)
    ELSE skipBlockComment_StopAtStar(
             advance(IF Lexer_peek(L) = "\n" THEN countLine(L) ELSE L))

\* The loop over the body of a block comment, after "/*" was consumed.
RECURSIVE skipBlockComment(_)
skipBlockComment(L) ==
    IF Lexer_isAtEnd(L) THEN L
    ELSE IF /\ Lexer_peek(L) = "*"
            /\ L.currentPos + 1 < Len(sourcecode)
            /\ sourcecode[L.currentPos + 2] = "/"
         THEN advance(advance(L))
         ELSE skipBlockComment(
                  advance(IF Lexer_peek(L) = "\n" THEN countLine(L) ELSE L))

\* while (std::isdigit(peek())) advance();
RECURSIVE skipDigits(_)
skipDigits(L) == IF Lexer_peek(L) \in Digits THEN skipDigits(advance(L)) ELSE L

number(L) ==
    LET start == L.currentPos - 1
        L1 == skipDigits(L)
        isFloat == Lexer_peek(L1) = "." /\ charAt(L1.currentPos + 1) \in Digits
        L2 == IF isFloat THEN skipDigits(advance(L1)) ELSE L1
    IN  [token |-> makeToken(L2, IF isFloat THEN "FLOAT_LITERAL" ELSE "NUMBER",
                             substr(start, L2.currentPos - start)),
         lexer |-> L2]

\* while (peek() != '"' && !isAtEnd()) { if (peek() == '\n') ...; advance(); }
RECURSIVE skipStringBody(_)
skipStringBody(L) ==
    IF Lexer_peek(L) # "\"" /\ ~Lexer_isAtEnd(L)
    THEN skipStringBody(advance(IF Lexer_peek(L) = "\n" THEN countLine(L) ELSE L))
    ELSE L

string(L) ==
    LET start == L.currentPos - 1
        L1 == skipStringBody(L)
    IN  IF Lexer_isAtEnd(L1)
        THEN [token |-> makeToken(L1, "UNKNOWN", Str_UnterminatedString),
              lexer |-> L1]
        ELSE LET L2 == advance(L1) IN
             [token |-> makeToken(L2, "STRING_LITERAL",
                                  substr(start, L2.currentPos - start)),
              lexer |-> L2]

character(L) ==
    LET start == L.currentPos IN
    IF Lexer_peek(L) = "'"
    THEN [token |-> makeToken(L, "UNKNOWN", Str_EmptyChar), lexer |-> L]
    ELSE LET L1 == IF Lexer_peek(L) = "\\" THEN advance(L) ELSE L
             L2 == advance(L1)
         IN  IF Lexer_peek(L2) # "'"
             THEN [token |-> makeToken(L2, "UNKNOWN", Str_UnterminatedChar),
                   lexer |-> L2]
             ELSE LET L3 == advance(L2) IN
                  [token |-> makeToken(L3, "CHAR_LITERAL",
                                       substr(start, L3.currentPos - start - 1)),
                   lexer |-> L3]

\* while (std::isalnum(peek()) || peek() == '_') advance();
RECURSIVE skipIdentifier(_)
skipIdentifier(L) ==
    IF Lexer_peek(L) \in Alphas \cup Digits \/ Lexer_peek(L) = "_"
    THEN skipIdentifier(advance(L))
    ELSE L

keywordType(idLexeme) ==
    IF idLexeme = Str_int THEN "KW_INT"
    ELSE IF idLexeme = Str_return THEN "KW_RETURN"
    ELSE IF idLexeme = Str_float THEN "KW_FLOAT"
    ELSE IF idLexeme = Str_char THEN "KW_CHAR"
    ELSE IF idLexeme = Str_string THEN "KW_STRING"
    ELSE IF idLexeme = Str_double THEN "KW_DOUBLE"
    ELSE IF idLexeme = Str_void THEN "KW_VOID"
    ELSE IF idLexeme = Str_if THEN "KW_IF"
    ELSE IF idLexeme = Str_else THEN "KW_ELSE"
    ELSE IF idLexeme = Str_while THEN "KW_WHILE"
    ELSE IF idLexeme = Str_for THEN "KW_FOR"
    ELSE "IDENTIFIER"

identifier(L) ==
    LET start == L.currentPos - 1
        L1 == skipIdentifier(L)
        idLexeme == substr(start, L1.currentPos - start)
    IN  [token |-> makeToken(L1, keywordType(idLexeme), idLexeme), lexer |-> L1]

\* The one-character tokens of scanToken's switch.
singleCharType(c) ==
    CASE c = "(" -> "LPAR"
      [] c = ")" -> "RPAR"
      [] c = "{" -> "LBRACE"
      [] c = "}" -> "RBRACE"
      [] c = ";" -> "SEMICOLON"
      [] c = "+" -> "PLUS"
      [] c = "-" -> "MINUS"
      [] c = "*" -> "MULTIPLY"
      [] c = "%" -> "MODULO"
      [] c = "#" -> "POUND"
      [] c = "," -> "COMMA"

\* case '<', '>', '=', '!': one character, or two when '=' follows.
twoCharToken(L, c) ==
    IF Lexer_peek(L) = "="
    THEN LET L1 == advance(L) IN
         [token |-> makeToken(L1, CASE c = "<" -> "LESS_EQUAL"
                                    [] c = ">" -> "GREATER_EQUAL"
                                    [] c = "=" -> "EQUAL_EQUAL"
                                    [] c = "!" -> "NOT_EQUAL",
                              <<c, "=">>),
          lexer |-> L1]
    ELSE [token |-> makeToken(L, CASE c = "<" -> "LESS_THAN"
                                   [] c = ">" -> "GRE_THAN"
                                   [] c = "=" -> "ASSIGN"
                                   [] c = "!" -> "UNKNOWN",
                              <<c>>),
          lexer |-> L]

RECURSIVE scanToken(_)
scanToken(L) ==
    LET L1 == skipWhitespace(L)
        L2 == [L1 EXCEPT !.tokenStartLine = L1.line,
                         !.tokenStartColumn = L1.column]
    IN  IF Lexer_isAtEnd(L2)
        THEN [token |-> makeToken(L2, "E_O_F", Str_SIGNING_OFF), lexer |-> L2]
        ELSE
        LET c == Lexer_peek(L2)      \* the character advance() returns
            L3 == advance(L2)
        IN  IF c \in {"(", ")", "{", "}", ";", "+", "-", "*", "%", "#", ","}
            THEN [token |-> makeToken(L3, singleCharType(c), <<c>>),
                  lexer |-> L3]
            ELSE IF c = "/"
            THEN IF Lexer_peek(L3) = "/"
                 THEN scanToken(skipLineComment(L3))
                 ELSE IF Lexer_peek(L3) = "*"
                 THEN scanToken(skipBlockComment(advance(L3)))
                 ELSE [token |-> makeToken(L3, "DIVIDE", <<"/">>),
                       lexer |-> L3]
            ELSE IF c \in {"<", ">", "=", "!"} THEN twoCharToken(L3, c)
            ELSE IF c = "\"" THEN string(L3)
            ELSE IF c = "'" THEN character(L3)
            ELSE IF c \in Digits THEN number(L3)
            ELSE IF c \in Alphas \/ c = "_" THEN identifier(L3)
            ELSE [token |-> makeToken(L3, "UNKNOWN", <<c>>), lexer |-> L3]

(***************************************************************************)
(* Syntax tree (AST.h)                                                     *)
(*                                                                         *)
(* A node is a record tagged with its class.  A unique_ptr that may be     *)
(* null is a sequence of at most one node.  Every expression node starts   *)
(* with the members of ExprAST: inferredType = Invalid and constantValue   *)
(* = nullopt (the empty sequence).                                         *)
(***************************************************************************)
NumberExprAST(val) ==
    [kind |-> "NumberExprAST", value |-> val,
     inferredType |-> "Invalid", constantValue |-> <<>>]

FloatExprAST(val) ==
    [kind |-> "FloatExprAST", value |-> val,
     inferredType |-> "Invalid", constantValue |-> <<>>]

StringExprAST(val) ==
    [kind |-> "StringExprAST", value |-> val,
     inferredType |-> "Invalid", constantValue |-> <<>>]

CharExprAST(val) ==
    [kind |-> "CharExprAST", value |-> val,
     inferredType |-> "Invalid", constantValue |-> <<>>]

VariableExprAST(name) ==
    [kind |-> "VariableExprAST", name |-> name,
     inferredType |-> "Invalid", constantValue |-> <<>>]

CallExprAST(callee, args) ==
    [kind |-> "CallExprAST", callee |-> callee, args |-> args,
     inferredType |-> "Invalid", constantValue |-> <<>>]

BinaryExprAST(op, l, r) ==
    [kind |-> "BinaryExprAST", op |-> op, left |-> l, right |-> r,
     inferredType |-> "Invalid", constantValue |-> <<>>]

VariableDeclAST(type, name, init) ==
    [kind |-> "VariableDeclAST", type |-> type, name |-> name,
     initializer |-> init]

ReturnStmtAST(expr) == [kind |-> "ReturnStmtAST", expression |-> expr]

PrintStmtAST(expr) == [kind |-> "PrintStmtAST", expression |-> expr]

IfStmtAST(cond, thenB, elseB) ==
    [kind |-> "IfStmtAST", condition |-> cond,
     thenBranch |-> thenB, elseBranch |-> elseB]

WhileStmtAST(cond, bodyStmts) ==
    [kind |-> "WhileStmtAST", condition |-> cond, body |-> bodyStmts]

ForStmtAST(init, cond, incr, bodyStmts) ==
    [kind |-> "ForStmtAST", initializer |-> init, condition |-> cond,
     increment |-> incr, body |-> bodyStmts]

FunctionAST(returnType, name, params, body) ==
    [kind |-> "FunctionAST", returnType |-> returnType, name |-> name,
     parameters |-> params, body |-> body]

ProgramAST(funcs) == [kind |-> "ProgramAST", functions |-> funcs]

(***************************************************************************)
(* Parser                                                                  *)
(*                                                                         *)
(* A parsing method takes the token vector T and the cursor (current) and  *)
(* yields Ok(cursor, value) or, where the C++ throws, Throw(cursor, what). *)
(* A Throw propagates unchanged through every caller up to parse, as the   *)
(* exception does.                                                         *)
(***************************************************************************)
ParserCtor == [current |-> 0, functions |-> <<>>]

Ok(cur, v) == [ok |-> TRUE, current |-> cur, value |-> v]

Throw(cur, what) == [ok |-> FALSE, current |-> cur, value |-> what]

Parser_peek(T, cur) == T[cur + 1]

previous(T, cur) == T[cur]

\* A faulty test that takes an UNKNOWN token for the end of the vector; it
\* shows that UnknownTokenRejected tells the difference.
Parser_isAtEnd_AtUnknown(T, cur) ==
    Parser_peek(T, cur).type \in {"E_O_F", "UNKNOWN"}

Parser_isAtEnd(T, cur) == Parser_peek(T, cur).type = "E_O_F"

match(T, cur, type) ==
    IF Parser_isAtEnd(T, cur) THEN [matched |-> FALSE, current |-> cur]
    ELSE IF Parser_peek(T, cur).type = type
         THEN [matched |-> TRUE, current |-> cur + 1]
         ELSE [matched |-> FALSE, current |-> cur]

\* A faulty consume that steps over the token it rejects, the E_O_F token
\* included; it shows that CursorWithinTokens tells the difference.
consume_StepOver(T, cur, type, message) ==
    IF Parser_isAtEnd(T, cur)
    THEN Throw(cur + 1, [what |-> " unexpected end of file",
                         message |-> message, found |-> <<>>])
    ELSE IF Parser_peek(T, cur).type = type
         THEN Ok(cur + 1, previous(T, cur + 1))
         ELSE Throw(cur + 1, [what |-> "syntax error :", message |-> message,
                              found |-> Parser_peek(T, cur).lexeme])

consume(T, cur, type, message) ==
    IF Parser_isAtEnd(T, cur)
    THEN Throw(cur, [what |-> " unexpected end of file", message |-> message,
                     found |-> <<>>])
    ELSE IF Parser_peek(T, cur).type = type
         THEN Ok(cur + 1, previous(T, cur + 1))
         ELSE Throw(cur, [what |-> "syntax error :", message |-> message,
                          found |-> Parser_peek(T, cur).lexeme])

\* The keywords parseType tries, in its order, with the name each yields.
TypeKeywords ==
    << <<"KW_VOID", Str_void>>, <<"KW_INT", Str_int>>,
       <<"KW_FLOAT", Str_float>>, <<"KW_DOUBLE", Str_double>>,
       <<"KW_CHAR", Str_char>>, <<"KW_STRING", Str_string>> >>

RECURSIVE parseTypeFrom(_, _, _)
parseTypeFrom(T, cur, i) ==
    IF i > Len(TypeKeywords)
    THEN Throw(cur, [what |-> "Expected type specifier.", message |-> "",
                     found |-> <<>>])
    ELSE LET m == match(T, cur, TypeKeywords[i][1]) IN
         IF m.matched THEN Ok(m.current, TypeKeywords[i][2])
         ELSE parseTypeFrom(T, cur, i + 1)

parseType(T, cur) == parseTypeFrom(T, cur, 1)

\* A faulty table that gives every binary operator the same precedence; it
\* shows that HigherPrecedenceNestsRight tells the difference.
getOperatorPrecedence_Flat(op) ==
    IF op \in {"MULTIPLY", "DIVIDE", "MODULO", "PLUS", "MINUS", "EQUAL_EQUAL",
               "NOT_EQUAL", "LESS_THAN", "GRE_THAN", "LESS_EQUAL",
               "GREATER_EQUAL", "ASSIGN"} THEN 1
    ELSE 0

getOperatorPrecedence(op) ==
    IF op \in {"MULTIPLY", "DIVIDE", "MODULO"} THEN 4
    ELSE IF op \in {"PLUS", "MINUS"} THEN 3
    ELSE IF op \in {"EQUAL_EQUAL", "NOT_EQUAL", "LESS_THAN", "GRE_THAN",
                    "LESS_EQUAL", "GREATER_EQUAL"} THEN 2
    ELSE IF op = "ASSIGN" THEN 1
    ELSE 0

isBinaryOperator(type) == getOperatorPrecedence(type) > 0

(***************************************************************************)
(* std::stol on a NUMBER lexeme (a non-empty run of digits): the value, or *)
(* std::out_of_range when it exceeds LONG_MAX = 9223372036854775807.  The  *)
(* range test compares digit strings, since the integers of TLC are     *)
(* narrower than a long.                                                   *)
(***************************************************************************)
LongMaxDigits ==
    <<"9", "2", "2", "3", "3", "7", "2", "0", "3", "6", "8", "5", "4", "7",
      "7", "5", "8", "0", "7">>

DigitValue(d) ==
    CASE d = "0" -> 0 [] d = "1" -> 1 [] d = "2" -> 2 [] d = "3" -> 3
      [] d = "4" -> 4 [] d = "5" -> 5 [] d = "6" -> 6 [] d = "7" -> 7
      [] d = "8" -> 8 [] d = "9" -> 9

RECURSIVE stripZeros(_)
stripZeros(ds) ==
    IF Len(ds) > 1 /\ ds[1] = "0" THEN stripZeros(Tail(ds)) ELSE ds

\* ds <= es for digit strings of the same length
RECURSIVE digitsLeq(_, _)
digitsLeq(ds, es) ==
    IF ds = <<>> THEN TRUE
    ELSE IF DigitValue(ds[1]) # DigitValue(es[1])
         THEN DigitValue(ds[1]) < DigitValue(es[1])
         ELSE digitsLeq(Tail(ds), Tail(es))

fitsLong(ds) ==
    LET s == stripZeros(ds) IN
    \/ Len(s) < Len(LongMaxDigits)
    \/ Len(s) = Len(LongMaxDigits) /\ digitsLeq(s, LongMaxDigits)

RECURSIVE digitsValue(_, _)
digitsValue(ds, acc) ==
    IF ds = <<>> THEN acc
    ELSE digitsValue(Tail(ds), 10 * acc + DigitValue(ds[1]))

stol(cur, lexeme) ==
    IF fitsLong(lexeme) THEN Ok(cur, digitsValue(lexeme, 0))
    ELSE Throw(cur, [what |-> "stol", message |-> "", found |-> lexeme])

\* The class of the exception a Throw stands for: std::stol throws
\* std::out_of_range, every throw of the parser is a std::runtime_error.
exceptionClass(e) ==
    IF e.what = "stol" THEN "std::out_of_range" ELSE "std::runtime_error"

\* The classes derived from std::exception among those of exceptionClass.
StdExceptions == {"std::runtime_error", "std::out_of_range"}

\* A faulty handler, catch (const std::runtime_error&); it shows that
\* ParseNeverThrows tells the difference.
catches_RuntimeErrorOnly(class) == class = "std::runtime_error"

\* catch (const std::exception& e)
catches(class) == class \in StdExceptions

RECURSIVE parseBinaryExpression(_, _, _)
RECURSIVE binaryLoop(_, _, _, _)
RECURSIVE parsePrimary(_, _)
RECURSIVE parseArguments(_, _, _)

parseExpression(T, cur) == parseBinaryExpression(T, cur, 0)

\* A faulty loop that parses the right operand with the operator's own
\* precedence; it shows that EqualPrecedenceNestsLeft tells the difference.
RECURSIVE binaryLoop_SamePrecedence(_, _, _, _)
binaryLoop_SamePrecedence(T, cur, minPrecedence, left) ==
    IF ~Parser_isAtEnd(T, cur) /\ isBinaryOperator(Parser_peek(T, cur).type)
    THEN LET opType == Parser_peek(T, cur).type
             precedence == getOperatorPrecedence(opType)
         IN  IF precedence < minPrecedence THEN Ok(cur, left)
             ELSE LET right ==
                          parseBinaryExpression(T, cur + 1, precedence)
                  IN  IF ~right.ok THEN right
                      ELSE binaryLoop_SamePrecedence(
                               T, right.current, minPrecedence,
                               BinaryExprAST(opType, left, right.value))
    ELSE Ok(cur, left)

\* The while loop of parseBinaryExpression, left being the operand so far.
binaryLoop(T, cur, minPrecedence, left) ==
    IF ~Parser_isAtEnd(T, cur) /\ isBinaryOperator(Parser_peek(T, cur).type)
    THEN LET opType == Parser_peek(T, cur).type
             precedence == getOperatorPrecedence(opType)
         IN  IF precedence < minPrecedence THEN Ok(cur, left)
             ELSE LET right ==
                          parseBinaryExpression(T, cur + 1, precedence + 1)
                  IN  IF ~right.ok THEN right
                      ELSE binaryLoop(T, right.current, minPrecedence,
                                      BinaryExprAST(opType, left, right.value))
    ELSE Ok(cur, left)

parseBinaryExpression(T, cur, minPrecedence) ==
    LET left == parsePrimary(T, cur) IN
    IF ~left.ok THEN left
    ELSE binaryLoop(T, left.current, minPrecedence, left.value)

\* do { args.push_back(parseExpression()); } while (match(COMMA));
parseArguments(T, cur, args) ==
    LET e == parseExpression(T, cur) IN
    IF ~e.ok THEN e
    ELSE LET m == match(T, e.current, "COMMA") IN
         IF m.matched
         THEN parseArguments(T, m.current, Append(args, e.value))
         ELSE Ok(e.current, Append(args, e.value))

parsePrimary(T, cur) ==
    IF match(T, cur, "NUMBER").matched
    THEN LET v == stol(cur + 1, previous(T, cur + 1).lexeme) IN
         IF v.ok THEN Ok(cur + 1, NumberExprAST(v.value)) ELSE v
    ELSE IF match(T, cur, "FLOAT_LITERAL").matched
    \* stod: the double is kept as its digits; nothing computes with it.
    THEN Ok(cur + 1, FloatExprAST(previous(T, cur + 1).lexeme))
    ELSE IF match(T, cur, "STRING_LITERAL").matched
    THEN Ok(cur + 1, StringExprAST(previous(T, cur + 1).lexeme))
    ELSE IF match(T, cur, "CHAR_LITERAL").matched
    THEN LET lexeme == previous(T, cur + 1).lexeme IN
         Ok(cur + 1, CharExprAST(IF Len(lexeme) > 0 THEN lexeme[1] ELSE NUL))
    ELSE IF match(T, cur, "IDENTIFIER").matched
    THEN LET name == previous(T, cur + 1).lexeme
             lpar == match(T, cur + 1, "LPAR")
         IN  IF lpar.matched
             THEN LET rpar == match(T, lpar.current, "RPAR") IN
                  IF rpar.matched
                  THEN Ok(rpar.current, CallExprAST(name, <<>>))
                  ELSE LET args == parseArguments(T, lpar.current, <<>>) IN
                       IF ~args.ok THEN args
                       ELSE LET c == consume(T, args.current, "RPAR",
                                       "Expected ')' after arguments.")
                            IN  IF ~c.ok THEN c
                                ELSE Ok(c.current,
                                        CallExprAST(name, args.value))
             ELSE Ok(cur + 1, VariableExprAST(name))
    ELSE Throw(cur, [what |-> " expected expression, found ", message |-> "",
                     found |-> Parser_peek(T, cur).lexeme])

\* A call that throws ends its caller with the same exception; one that
\* returns hands its result r to the rest of the caller, K.
Try(r, K(_)) == IF r.ok THEN K(r) ELSE r

parseVariableDecl(T, cur) ==
    Try(parseType(T, cur), LAMBDA type :
    Try(consume(T, type.current, "IDENTIFIER", "Expected variable name."),
        LAMBDA name :
    Try(IF match(T, name.current, "ASSIGN").matched
        THEN parseExpression(T, name.current + 1)
        ELSE Ok(name.current, <<>>), LAMBDA init :
    Try(consume(T, init.current, "SEMICOLON",
                "Expected ';' after variable declaration."), LAMBDA semi :
    Ok(semi.current,
       VariableDeclAST(type.value, name.value.lexeme,
                       IF match(T, name.current, "ASSIGN").matched
                       THEN <<init.value>> ELSE <<>>))))))

\* A faulty parseReturnStatement that parses the expression and builds the
\* node without it; it shows that ReturnHoldsExpression tells the
\* difference.
parseReturnStatement_NoExpression(T, cur) ==
    Try(consume(T, cur, "KW_RETURN", "expected 'return'"), LAMBDA kw :
    Try(parseExpression(T, kw.current), LAMBDA expression :
    Try(consume(T, expression.current, "SEMICOLON",
                "Expected ';' after return value."), LAMBDA semi :
    Ok(semi.current, ReturnStmtAST(<<>>)))))

parseReturnStatement(T, cur) ==
    Try(consume(T, cur, "KW_RETURN", "expected 'return'"), LAMBDA kw :
    Try(parseExpression(T, kw.current), LAMBDA expression :
    Try(consume(T, expression.current, "SEMICOLON",
                "Expected ';' after return value."), LAMBDA semi :
    Ok(semi.current, ReturnStmtAST(<<expression.value>>)))))

parsePrintStatement(T, cur) ==
    Try(parseExpression(T, cur), LAMBDA expr :
    Try(consume(T, expr.current, "SEMICOLON",
                "Expected ';' after expression."), LAMBDA semi :
    Ok(semi.current, PrintStmtAST(expr.value))))

RECURSIVE parseStatement(_, _)
RECURSIVE statementList(_, _, _)
RECURSIVE parseIfStatement(_, _)
RECURSIVE parseWhileStatement(_, _)
RECURSIVE parseForStatement(_, _)

\* while (!match(RBRACE) && !isAtEnd()) { body.push_back(parseStatement()); }
\* the loop of parseFunction, and of the if, else, while and for blocks.
statementList(T, cur, body) ==
    IF match(T, cur, "RBRACE").matched THEN Ok(cur + 1, body)
    ELSE IF Parser_isAtEnd(T, cur) THEN Ok(cur, body)
    ELSE Try(parseStatement(T, cur), LAMBDA stmt :
         statementList(T, stmt.current, Append(body, stmt.value)))

\* if (match(KW_ELSE)) { consume(LBRACE); the else block }
elseBranch(T, cur) ==
    IF match(T, cur, "KW_ELSE").matched
    THEN Try(consume(T, cur + 1, "LBRACE", "Expected '{' after 'else'"),
             LAMBDA lbrace : statementList(T, lbrace.current, <<>>))
    ELSE Ok(cur, <<>>)

parseIfStatement(T, cur) ==
    Try(consume(T, cur, "KW_IF", "Expected 'if'"), LAMBDA kw :
    Try(consume(T, kw.current, "LPAR", "Expected '(' after 'if'"),
        LAMBDA lpar :
    Try(parseExpression(T, lpar.current), LAMBDA condition :
    Try(consume(T, condition.current, "RPAR", "Expected ')' after condition"),
        LAMBDA rpar :
    Try(consume(T, rpar.current, "LBRACE", "Expected '{' after if condition"),
        LAMBDA lbrace :
    Try(statementList(T, lbrace.current, <<>>), LAMBDA thenBranch :
    Try(elseBranch(T, thenBranch.current), LAMBDA else :
    Ok(else.current,
       IfStmtAST(condition.value, thenBranch.value, else.value)))))))))

\* Entered after parseStatement matched 'while'.
parseWhileStatement(T, cur) ==
    Try(consume(T, cur, "LPAR", "Expected '(' after 'while'"), LAMBDA lpar :
    Try(parseExpression(T, lpar.current), LAMBDA condition :
    Try(consume(T, condition.current, "RPAR", "Expected ')' after condition"),
        LAMBDA rpar :
    Try(consume(T, rpar.current, "LBRACE",
                "Expected '{' after while condition"), LAMBDA lbrace :
    Try(statementList(T, lbrace.current, <<>>), LAMBDA body :
    Ok(body.current, WhileStmtAST(condition.value, body.value)))))))

\* The initializer clause of a for statement.  An expression initializer
\* is parsed into a local that is dropped: initializer stays nullptr.
forInitializer(T, cur) ==
    IF match(T, cur, "SEMICOLON").matched THEN Ok(cur + 1, <<>>)
    ELSE IF Parser_peek(T, cur).type \in {"KW_INT", "KW_FLOAT", "KW_DOUBLE"}
    THEN Try(parseVariableDecl(T, cur), LAMBDA decl :
         Ok(decl.current, <<decl.value>>))
    ELSE Try(parseExpression(T, cur), LAMBDA expr :
         Try(consume(T, expr.current, "SEMICOLON",
                     "Expected ';' after initializer"), LAMBDA semi :
         Ok(semi.current, <<>>)))

\* The condition (closer = SEMICOLON) and increment (closer = RPAR) clauses.
forClause(T, cur, closer, message) ==
    IF match(T, cur, closer).matched THEN Ok(cur + 1, <<>>)
    ELSE Try(parseExpression(T, cur), LAMBDA expr :
         Try(consume(T, expr.current, closer, message), LAMBDA c :
         Ok(c.current, <<expr.value>>)))

\* Entered after parseStatement matched 'for'.
parseForStatement(T, cur) ==
    Try(consume(T, cur, "LPAR", "Expected '(' after 'for'"), LAMBDA lpar :
    Try(forInitializer(T, lpar.current), LAMBDA initializer :
    Try(forClause(T, initializer.current, "SEMICOLON",
                  "Expected ';' after condition"), LAMBDA condition :
    Try(forClause(T, condition.current, "RPAR",
                  "Expected ')' after increment"), LAMBDA increment :
    Try(consume(T, increment.current, "LBRACE",
                "Expected '{' after for statement"), LAMBDA lbrace :
    Try(statementList(T, lbrace.current, <<>>), LAMBDA body :
    Ok(body.current,
       ForStmtAST(initializer.value, condition.value, increment.value,
                  body.value))))))))

parseStatement(T, cur) ==
    IF Parser_peek(T, cur).type
           \in {"KW_INT", "KW_FLOAT", "KW_DOUBLE", "KW_CHAR", "KW_STRING"}
    THEN parseVariableDecl(T, cur)
    ELSE IF Parser_peek(T, cur).type = "KW_RETURN"
    THEN parseReturnStatement(T, cur)
    ELSE IF Parser_peek(T, cur).type = "KW_IF" THEN parseIfStatement(T, cur)
    ELSE IF match(T, cur, "KW_WHILE").matched
    THEN parseWhileStatement(T, cur + 1)
    ELSE IF match(T, cur, "KW_FOR").matched
    THEN parseForStatement(T, cur + 1)
    ELSE parsePrintStatement(T, cur)

\* do { parseType; consume(IDENTIFIER); push } while (match(COMMA));
RECURSIVE parseParameters(_, _, _)
parseParameters(T, cur, parameters) ==
    Try(parseType(T, cur), LAMBDA paramType :
    Try(consume(T, paramType.current, "IDENTIFIER",
                "Expected parameter name."), LAMBDA paramName :
    IF match(T, paramName.current, "COMMA").matched
    THEN parseParameters(T, paramName.current + 1,
             Append(parameters, <<paramType.value, paramName.value.lexeme>>))
    ELSE Ok(paramName.current,
            Append(parameters, <<paramType.value, paramName.value.lexeme>>))))

\* if (!match(RPAR)) { the parameters; consume(RPAR) }
parameterList(T, cur) ==
    IF match(T, cur, "RPAR").matched THEN Ok(cur + 1, <<>>)
    ELSE Try(parseParameters(T, cur, <<>>), LAMBDA ps :
         Try(consume(T, ps.current, "RPAR", "Expected ')'."), LAMBDA rpar :
         Ok(rpar.current, ps.value)))

parseFunction(T, cur) ==
    Try(parseType(T, cur), LAMBDA returnType :
    Try(consume(T, returnType.current, "IDENTIFIER",
                "expected function name."), LAMBDA name :
    Try(consume(T, name.current, "LPAR", "Expected '('."), LAMBDA lpar :
    Try(parameterList(T, lpar.current), LAMBDA parameters :
    Try(consume(T, parameters.current, "LBRACE", "Expected '{'."),
        LAMBDA lbrace :
    Try(statementList(T, lbrace.current, <<>>), LAMBDA body :
    Ok(body.current,
       FunctionAST(returnType.value, name.value.lexeme, parameters.value,
                   body.value))))))))

\* Parser::parse without its catch: the functions of the loop, or the Throw.
RECURSIVE parseProgram(_, _, _)
parseProgram(T, cur, functions) ==
    IF Parser_isAtEnd(T, cur) THEN Ok(cur, ProgramAST(functions))
    ELSE LET f == parseFunction(T, cur) IN
         IF ~f.ok THEN f
         ELSE parseProgram(T, f.current, Append(functions, f.value))

(***************************************************************************)
(* Token vectors handed to the parser                                      *)
(*                                                                         *)
(* Every vector ends with the E_O_F token, as every result of scanTokens   *)
(* does.  The k-th token of a vector is given a lexeme of its own (the     *)
(* k-th letter for an identifier, the digit k for a number), so that the   *)
(* operands of a tree can be told apart.  A vector is extended by one more *)
(* token only while the parser reads it to its end: the parser reads       *)
(* tokens[current] only and never moves current back, so a vector it       *)
(* rejects at token k is parsed exactly like each of its extensions.       *)
(***************************************************************************)
GenTypes ==
    {"KW_INT", "IDENTIFIER", "NUMBER", "LPAR", "RPAR", "LBRACE", "RBRACE",
     "SEMICOLON", "COMMA", "ASSIGN", "LESS_THAN", "PLUS", "MULTIPLY",
     "KW_RETURN", "KW_IF", "KW_ELSE", "KW_WHILE", "KW_FOR", "UNKNOWN"}

GenLetters ==
    <<"a", "b", "c", "d", "e", "f", "g", "h", "i", "j", "k", "l", "m",
      "n", "o", "p", "q", "r", "s", "t", "u", "v", "w", "x", "y", "z">>

GenDigits == <<"1", "2", "3", "4", "5", "6", "7", "8", "9", "0">>

GenLexeme(type, k) ==
    CASE type = "IDENTIFIER" -> <<GenLetters[((k - 1) % 26) + 1]>>
      [] type = "NUMBER" -> <<GenDigits[((k - 1) % 10) + 1]>>
      [] type = "KW_INT" -> Str_int
      [] type = "KW_RETURN" -> Str_return
      [] type = "KW_IF" -> Str_if
      [] type = "KW_ELSE" -> Str_else
      [] type = "KW_WHILE" -> Str_while
      [] type = "KW_FOR" -> Str_for
      [] type = "LPAR" -> <<"(">>
      [] type = "RPAR" -> <<")">>
      [] type = "LBRACE" -> <<"{">>
      [] type = "RBRACE" -> <<"}">>
      [] type = "SEMICOLON" -> <<";">>
      [] type = "COMMA" -> <<",">>
      [] type = "ASSIGN" -> <<"=">>
      [] type = "LESS_THAN" -> <<"<">>
      [] type = "PLUS" -> <<"+">>
      [] type = "MULTIPLY" -> <<"*">>
      [] type = "MINUS" -> <<"-">>
      [] type = "DIVIDE" -> <<"/">>
      [] type = "MODULO" -> <<"%">>
      [] type = "GRE_THAN" -> <<">">>
      [] type = "EQUAL_EQUAL" -> <<"=", "=">>
      [] type = "NOT_EQUAL" -> <<"!", "=">>
      [] type = "LESS_EQUAL" -> <<"<", "=">>
      [] type = "GREATER_EQUAL" -> <<">", "=">>
      [] type = "UNKNOWN" -> <<"@">>
      [] type = "E_O_F" -> Str_SIGNING_OFF

GenToken(type, k) ==
    [type |-> type, lexeme |-> GenLexeme(type, k), line |-> 1, column |-> k]

WithEOF(s) == Append(s, GenToken("E_O_F", Len(s) + 1))

ReadToEnd(s) == parseProgram(WithEOF(s), 0, <<>>).current = Len(s)

RECURSIVE GenSeqs(_)
GenSeqs(n) ==
    IF n = 0 THEN {<<>>}
    ELSE LET prev == GenSeqs(n - 1) IN
         prev \cup {Append(s, GenToken(t, n)) :
                        s \in {p \in prev : Len(p) = n - 1 /\ ReadToEnd(p)},
                        t \in GenTypes}

\* The tokens of the types T, the k-th with the k-th lexeme.
GenTokens(T) == [k \in DOMAIN T |-> GenToken(T[k], k)]

\* The tokens of seven programs the parser accepts:
\*   int b() { }
\*   int b(int e, int h) { return l + n; }
\*   int b() { int g = 9; k = m(o, 7); }
\*   int b() { if (h < 0) { return n; } else { s; } }
\*   int b() { while (h) { k; } }
\*   int b() { for (int i = 1; m < 5; q = s + 1) { x; } }
\*   int b() { } int h() { }
ProgramInputs ==
    LET head == <<"KW_INT", "IDENTIFIER", "LPAR", "RPAR", "LBRACE">> IN
    {GenTokens(T) : T \in {
        head \o <<"RBRACE">>,
        <<"KW_INT", "IDENTIFIER", "LPAR", "KW_INT", "IDENTIFIER", "COMMA",
          "KW_INT", "IDENTIFIER", "RPAR", "LBRACE", "KW_RETURN",
          "IDENTIFIER", "PLUS", "IDENTIFIER", "SEMICOLON", "RBRACE">>,
        head \o <<"KW_INT", "IDENTIFIER", "ASSIGN", "NUMBER", "SEMICOLON",
                  "IDENTIFIER", "ASSIGN", "IDENTIFIER", "LPAR", "IDENTIFIER",
                  "COMMA", "NUMBER", "RPAR", "SEMICOLON", "RBRACE">>,
        head \o <<"KW_IF", "LPAR", "IDENTIFIER", "LESS_THAN", "NUMBER",
                  "RPAR", "LBRACE", "KW_RETURN", "IDENTIFIER", "SEMICOLON",
                  "RBRACE", "KW_ELSE", "LBRACE", "IDENTIFIER", "SEMICOLON",
                  "RBRACE", "RBRACE">>,
        head \o <<"KW_WHILE", "LPAR", "IDENTIFIER", "RPAR", "LBRACE",
                  "IDENTIFIER", "SEMICOLON", "RBRACE", "RBRACE">>,
        head \o <<"KW_FOR", "LPAR", "KW_INT", "IDENTIFIER", "ASSIGN",
                  "NUMBER", "SEMICOLON", "IDENTIFIER", "LESS_THAN", "NUMBER",
                  "SEMICOLON", "IDENTIFIER", "ASSIGN", "IDENTIFIER", "PLUS",
                  "NUMBER", "RPAR", "LBRACE", "IDENTIFIER", "SEMICOLON",
                  "RBRACE", "RBRACE">>,
        head \o <<"RBRACE">> \o head \o <<"RBRACE">>}}

\* The programs of ProgramInputs with the UNKNOWN token in the place of
\* one of their tokens: what scanTokens returns for a program with a stray
\* character in that place.
UnknownAt(s, k) == [s EXCEPT ![k] = GenToken("UNKNOWN", k)]

UnknownInputs ==
    UNION {{UnknownAt(s, k) : k \in DOMAIN s} : s \in ProgramInputs}

\* Integer literals of more than one digit: the largest int, one with
\* leading zeros, LONG_MAX + 1 and a literal of twenty digits.
LongLiterals ==
    {<<"2", "1", "4", "7", "4", "8", "3", "6", "4", "7">>,
     <<"0", "0", "0", "0", "0", "0", "0", "0", "0", "0", "0", "0", "0", "0",
       "0", "0", "0", "0", "0", "0", "0", "4", "2">>,
     [LongMaxDigits EXCEPT ![Len(LongMaxDigits)] = "8"],
     <<"1">> \o [i \in 1..Len(LongMaxDigits) |-> "0"]}

\* The function `int b() { f = n; }` for each n of LongLiterals, alone and
\* after the function `int b() { }`.
LiteralInputs ==
    LET head == <<"KW_INT", "IDENTIFIER", "LPAR", "RPAR", "LBRACE">>
        body == <<"IDENTIFIER", "ASSIGN", "NUMBER", "SEMICOLON", "RBRACE">>
    IN  {[GenTokens(pre \o head \o body) EXCEPT ![Len(pre) + 8].lexeme = n] :
             pre \in {<<>>, head \o <<"RBRACE">>}, n \in LongLiterals}

\* The function `int b() { for (init cond incr) { } }` with each clause
\* empty or not: the initializer a declaration or an expression.
ForInputs ==
    {GenTokens(<<"KW_INT", "IDENTIFIER", "LPAR", "RPAR", "LBRACE",
                "KW_FOR", "LPAR">> \o init \o cond \o incr
              \o <<"LBRACE", "RBRACE", "RBRACE">>) :
         init \in {<<"SEMICOLON">>,
                   <<"KW_INT", "IDENTIFIER", "ASSIGN", "NUMBER", "SEMICOLON">>,
                   <<"IDENTIFIER", "SEMICOLON">>,
                   <<"IDENTIFIER", "ASSIGN", "NUMBER", "SEMICOLON">>},
         cond \in {<<"SEMICOLON">>,
                   <<"IDENTIFIER", "LESS_THAN", "NUMBER", "SEMICOLON">>},
         incr \in {<<"RPAR">>,
                   <<"IDENTIFIER", "ASSIGN", "IDENTIFIER", "PLUS", "NUMBER",
                     "RPAR">>}}

\* The tokens isBinaryOperator holds of.
BinaryOperators ==
    {"ASSIGN", "EQUAL_EQUAL", "NOT_EQUAL", "LESS_THAN", "GRE_THAN",
     "LESS_EQUAL", "GREATER_EQUAL", "PLUS", "MINUS", "MULTIPLY", "DIVIDE",
     "MODULO"}

\* The function `int b() { f op1 7 op2 j; }` for every two operators.
OperatorInputs ==
    {GenTokens(<<"KW_INT", "IDENTIFIER", "LPAR", "RPAR", "LBRACE",
                 "IDENTIFIER", op1, "NUMBER", op2, "IDENTIFIER",
                 "SEMICOLON", "RBRACE">>) :
         op1 \in BinaryOperators, op2 \in BinaryOperators}

ParseInputs ==
    {WithEOF(s) : s \in GenSeqs(MaxTokens) \cup ProgramInputs
                        \cup UnknownInputs
                        \cup LiteralInputs \cup ForInputs
                        \cup OperatorInputs}

(***************************************************************************)
(* Sources handed to the driver: the lexemes of a token vector of at most  *)
(* MaxMainTokens tokens, each followed by a space.                         *)
(***************************************************************************)
RECURSIVE Unscan(_)
Unscan(s) ==
    IF s = <<>> THEN <<>> ELSE s[1].lexeme \o <<" ">> \o Unscan(Tail(s))

Str_printf == <<"p", "r", "i", "n", "t", "f">>

\* The sources  int b ( ) { return printf ( args ) ; }  with no argument,
\* one and two.
PrintfSources ==
    {Unscan([GenTokens(<<"KW_INT", "IDENTIFIER", "LPAR", "RPAR", "LBRACE",
                         "KW_RETURN", "IDENTIFIER", "LPAR">> \o args
                       \o <<"RPAR", "SEMICOLON", "RBRACE">>)
                 EXCEPT ![7].lexeme = Str_printf]) :
         args \in {<<>>, <<"NUMBER">>, <<"NUMBER", "COMMA", "NUMBER">>}}

MainSources ==
    {Unscan(s) : s \in GenSeqs(MaxMainTokens)} \cup PrintfSources

(***************************************************************************)
(* Semantics                                                               *)
(*                                                                         *)
(* S is the Semantics object: hasError, currentReturntype, scopes (a       *)
(* vector of frames, a frame a vector of <<name, type>>) and functions (a  *)
(* vector of <<name, FunctionInfo>>).  A visit takes the world W = [sema,  *)
(* cerr] and a node and yields the world after it with the node as the     *)
(* visit left it: [W, node].                                               *)
(***************************************************************************)
SemanticsCtor ==
    [hasError |-> FALSE, currentReturntype |-> "Invalid",
     scopes |-> <<>>, functions |-> <<>>]

stringToType(typeName) ==
    IF typeName = Str_int THEN "Int"
    ELSE IF typeName = Str_float THEN "Float"
    ELSE IF typeName = Str_double THEN "Double"
    ELSE IF typeName = Str_char THEN "Char"
    ELSE IF typeName = Str_string THEN "String"
    ELSE IF typeName = Str_void THEN "Void"
    ELSE "Invalid"

error(W, what, name) ==
    [sema |-> [W.sema EXCEPT !.hasError = TRUE],
     cerr |-> Append(W.cerr,
                     [from |-> "Semantics::error",
                      what |-> [what |-> what, message |-> "",
                                found |-> name]])]

enterScope(S) == [S EXCEPT !.scopes = Append(@, <<>>)]

\* An exit that leaves the frame on the stack.
exitScope_Keep(S) == S

exitScope(S) == [S EXCEPT !.scopes = SubSeq(@, 1, Len(@) - 1)]

declareVariable(S, name, type) ==
    IF S.scopes = <<>> THEN S
    ELSE [S EXCEPT !.scopes[Len(S.scopes)] = Append(@, <<name, type>>)]

\* for (const auto& var : frame) if (var.first == name) return var.second;
RECURSIVE findInFrame(_, _, _)
findInFrame(frame, name, i) ==
    IF i > Len(frame) THEN <<>>
    ELSE IF frame[i][1] = name THEN <<frame[i][2]>>
    ELSE findInFrame(frame, name, i + 1)

\* The frames from scopes.rbegin() to scopes.rend(), k the frame's index.
RECURSIVE findInScopes(_, _, _)
findInScopes(scopes, name, k) ==
    IF k < 1 THEN "Invalid"
    ELSE LET hit == findInFrame(scopes[k], name, 1) IN
         IF hit # <<>> THEN hit[1] ELSE findInScopes(scopes, name, k - 1)

getVariableType(S, name) == findInScopes(S.scopes, name, Len(S.scopes))

\* A faulty table that keeps the last declaration only; it shows that
\* FunctionsDeclaredBeforeBodies tells the difference.
declareFunction_KeepLast(S, name, returnType, paramTypes) ==
    [S EXCEPT !.functions =
        << <<name, [returnType |-> returnType,
                    paramTypes |-> paramTypes]>> >>]

declareFunction(S, name, returnType, paramTypes) ==
    [S EXCEPT !.functions =
        Append(@, <<name, [returnType |-> returnType,
                           paramTypes |-> paramTypes]>>)]

\* The optional FunctionInfo: <<>> is std::nullopt.
RECURSIVE findFunction(_, _, _)
findFunction(functions, name, i) ==
    IF i > Len(functions) THEN <<>>
    ELSE IF functions[i][1] = name THEN <<functions[i][2]>>
    ELSE findFunction(functions, name, i + 1)

getFunction(S, name) == findFunction(S.functions, name, 1)

\* A faulty visit whose annotation depends on the one it finds; it shows
\* that AnalyzeTwiceSame tells the difference.
visitNumberExprAST_Cycle(W, node) ==
    [W |-> W,
     node |-> [node EXCEPT !.inferredType =
                   IF @ = "Invalid" THEN "Int"
                   ELSE IF @ = "Int" THEN "Float" ELSE "Invalid"]]

\* int visit(NumberExprAST&)
visitNumberExprAST(W, node) ==
    [W |-> W, node |-> [node EXCEPT !.inferredType = "Int"]]

visitFloatExprAST(W, node) ==
    [W |-> W, node |-> [node EXCEPT !.inferredType = "Float"]]

visitStringExprAST(W, node) ==
    [W |-> W, node |-> [node EXCEPT !.inferredType = "String"]]

visitCharExprAST(W, node) ==
    [W |-> W, node |-> [node EXCEPT !.inferredType = "Char"]]

visitVariableExprAST(W, node) ==
    LET type == getVariableType(W.sema, node.name)
        W1 == IF type = "Invalid"
              THEN error(W, "Undefined variable: ", node.name)
              ELSE W
    IN  [W |-> W1, node |-> [node EXCEPT !.inferredType = type]]

RECURSIVE acceptExpr(_, _)
RECURSIVE visitExprs(_, _, _)
RECURSIVE visitCallExprAST(_, _)
RECURSIVE visitBinaryExprAST(_, _)

\* for (const auto& arg : node.args) arg->accept(*this);
visitExprs(W, exprs, i) ==
    IF i > Len(exprs) THEN [W |-> W, node |-> exprs]
    ELSE LET r == acceptExpr(W, exprs[i]) IN
         visitExprs(r.W, [exprs EXCEPT ![i] = r.node], i + 1)

\* A faulty visit that returns at an argument-count mismatch as it does
\* at an undefined callee; it shows that MismatchedCallStillAnnotated tells
\* the difference.
visitCallExprAST_ReturnOnMismatch(W, node) ==
    LET func == getFunction(W.sema, node.callee) IN
    IF func = <<>>
    THEN [W |-> error(W, "Undefined function: ", node.callee),
          node |-> [node EXCEPT !.inferredType = "Invalid"]]
    ELSE IF Len(node.args) # Len(func[1].paramTypes)
    THEN [W |-> error(W, "Incorrect number of arguments for function ",
                      node.callee),
          node |-> [node EXCEPT !.inferredType = "Invalid"]]
    ELSE LET args == visitExprs(W, node.args, 1) IN
         [W |-> args.W,
          node |-> [node EXCEPT !.args = args.node,
                                !.inferredType = func[1].returnType]]

visitCallExprAST(W, node) ==
    LET func == getFunction(W.sema, node.callee) IN
    IF func = <<>>
    THEN [W |-> error(W, "Undefined function: ", node.callee),
          node |-> [node EXCEPT !.inferredType = "Invalid"]]
    ELSE LET W1 == IF Len(node.args) # Len(func[1].paramTypes)
                   THEN error(W, "Incorrect number of arguments for function ",
                              node.callee)
                   ELSE W
             args == visitExprs(W1, node.args, 1)
         IN  [W |-> args.W,
              node |-> [node EXCEPT !.args = args.node,
                                    !.inferredType = func[1].returnType]]

\* A faulty visit that reports an operand it finds Invalid; it shows that
\* UndeclaredReferenceOneError tells the difference.
visitBinaryExprAST_Cascade(W, node) ==
    LET l == acceptExpr(W, node.left)
        r == acceptExpr(l.W, node.right)
        invalid == "Invalid" \in {l.node.inferredType, r.node.inferredType}
    IN  [W |-> IF invalid THEN error(r.W, "Invalid operand", node.op)
               ELSE r.W,
         node |-> [node EXCEPT
                     !.left = l.node,
                     !.right = r.node,
                     !.inferredType =
                         IF l.node.inferredType = "Float"
                            \/ r.node.inferredType = "Float"
                         THEN "Float" ELSE "Int"]]

\* A faulty visit that gives the node the type of its left operand unless
\* one operand is Float; it shows that BinaryTypeFloatOrInt tells the
\* difference.
visitBinaryExprAST_LeftType(W, node) ==
    LET l == acceptExpr(W, node.left)
        r == acceptExpr(l.W, node.right)
    IN  [W |-> r.W,
         node |-> [node EXCEPT
                     !.left = l.node,
                     !.right = r.node,
                     !.inferredType =
                         IF l.node.inferredType = "Float"
                            \/ r.node.inferredType = "Float"
                         THEN "Float" ELSE l.node.inferredType]]

visitBinaryExprAST(W, node) ==
    LET l == acceptExpr(W, node.left)
        r == acceptExpr(l.W, node.right)
    IN  [W |-> r.W,
         node |-> [node EXCEPT
                     !.left = l.node,
                     !.right = r.node,
                     !.inferredType =
                         IF l.node.inferredType = "Float"
                            \/ r.node.inferredType = "Float"
                         THEN "Float" ELSE "Int"]]

\* ExprAST::accept: the visit of the node's class.
acceptExpr(W, node) ==
    CASE node.kind = "NumberExprAST" -> visitNumberExprAST(W, node)
      [] node.kind = "FloatExprAST" -> visitFloatExprAST(W, node)
      [] node.kind = "StringExprAST" -> visitStringExprAST(W, node)
      [] node.kind = "CharExprAST" -> visitCharExprAST(W, node)
      [] node.kind = "VariableExprAST" -> visitVariableExprAST(W, node)
      [] node.kind = "CallExprAST" -> visitCallExprAST(W, node)
      [] node.kind = "BinaryExprAST" -> visitBinaryExprAST(W, node)

\* accept on a unique_ptr that may be null: `if (p) p->accept(*this)`.
acceptOptional(W, opt) ==
    IF opt = <<>> THEN [W |-> W, node |-> opt]
    ELSE LET r == acceptExpr(W, opt[1]) IN [W |-> r.W, node |-> <<r.node>>]

\* visit(VariableDeclAST&) with its commented-out call of error made: an
\* initializer of another type than declared, int for float apart, is
\* reported.
visitVariableDeclAST_Strict(W, node) ==
    LET varType == stringToType(node.type)
        init == acceptOptional(W, node.initializer)
        W1 == IF /\ init.node # <<>>
                 /\ init.node[1].inferredType # varType
                 /\ ~(varType = "Float" /\ init.node[1].inferredType = "Int")
              THEN error(init.W, "Type mismatch in variable initialization",
                         <<>>)
              ELSE init.W
    IN  [W |-> [W1 EXCEPT !.sema = declareVariable(@, node.name, varType)],
         node |-> [node EXCEPT !.initializer = init.node]]

\* visit(VariableDeclAST&) with its two steps exchanged: the name is
\* declared before the initializer accepts the visitor.
visitVariableDeclAST_DeclareFirst(W, node) ==
    LET varType == stringToType(node.type)
        declared == [W EXCEPT
                       !.sema = declareVariable(@, node.name, varType)]
        init == acceptOptional(declared, node.initializer)
    IN  [W |-> init.W, node |-> [node EXCEPT !.initializer = init.node]]

visitVariableDeclAST(W, node) ==
    LET varType == stringToType(node.type)
        init == acceptOptional(W, node.initializer)
    IN  [W |-> [init.W EXCEPT
                  !.sema = declareVariable(@, node.name, varType)],
         node |-> [node EXCEPT !.initializer = init.node]]

\* node.expression->accept(*this): the pointer is dereferenced unchecked;
\* every tree the parser builds holds an expression there.
visitReturnStmtAST(W, node) ==
    LET r == acceptExpr(W, node.expression[1]) IN
    [W |-> r.W, node |-> [node EXCEPT !.expression = <<r.node>>]]

RECURSIVE acceptStmt(_, _)
RECURSIVE visitStmts(_, _, _)

\* for (const auto& stmt : stmts) stmt->accept(*this);
visitStmts(W, stmts, i) ==
    IF i > Len(stmts) THEN [W |-> W, node |-> stmts]
    ELSE LET r == acceptStmt(W, stmts[i]) IN
         visitStmts(r.W, [stmts EXCEPT ![i] = r.node], i + 1)

\* Semantics::visit(PrintStmtAST&), declared in Sema.h: the expression of
\* the statement is visited.
visitPrintStmtAST(W, node) ==
    LET r == acceptExpr(W, node.expression) IN
    [W |-> r.W, node |-> [node EXCEPT !.expression = r.node]]

\* A faulty visit that gives the branches of the if a frame of their own;
\* it shows that OneFrameThroughoutBody tells the difference.
visitIfStmtAST_OwnFrame(W, node) ==
    LET c == acceptExpr(W, node.condition)
        t == visitStmts([c.W EXCEPT !.sema = enterScope(@)],
                        node.thenBranch, 1)
        e == visitStmts(t.W, node.elseBranch, 1)
    IN  [W |-> [e.W EXCEPT !.sema = exitScope(@)],
         node |-> [node EXCEPT !.condition = c.node, !.thenBranch = t.node,
                               !.elseBranch = e.node]]

\* Semantics::visit(IfStmtAST&), declared in Sema.h: the condition, then
\* the statements of both branches, in the function's own scope frame.
visitIfStmtAST(W, node) ==
    LET c == acceptExpr(W, node.condition)
        t == visitStmts(c.W, node.thenBranch, 1)
        e == visitStmts(t.W, node.elseBranch, 1)
    IN  [W |-> e.W,
         node |-> [node EXCEPT !.condition = c.node, !.thenBranch = t.node,
                               !.elseBranch = e.node]]

\* Semantics::visit(WhileStmtAST&), declared in Sema.h.
visitWhileStmtAST(W, node) ==
    LET c == acceptExpr(W, node.condition)
        b == visitStmts(c.W, node.body, 1)
    IN  [W |-> b.W,
         node |-> [node EXCEPT !.condition = c.node, !.body = b.node]]

\* Semantics::visit(ForStmtAST&), declared in Sema.h: each clause that is
\* present, then the body.
visitForStmtAST(W, node) ==
    LET i == visitStmts(W, node.initializer, 1)
        c == acceptOptional(i.W, node.condition)
        n == acceptOptional(c.W, node.increment)
        b == visitStmts(n.W, node.body, 1)
    IN  [W |-> b.W,
         node |-> [node EXCEPT !.initializer = i.node, !.condition = c.node,
                               !.increment = n.node, !.body = b.node]]

\* StmtAST::accept: the visit of the node's class.
acceptStmt(W, node) ==
    CASE node.kind = "VariableDeclAST" -> visitVariableDeclAST(W, node)
      [] node.kind = "ReturnStmtAST" -> visitReturnStmtAST(W, node)
      [] node.kind = "PrintStmtAST" -> visitPrintStmtAST(W, node)
      [] node.kind = "IfStmtAST" -> visitIfStmtAST(W, node)
      [] node.kind = "WhileStmtAST" -> visitWhileStmtAST(W, node)
      [] node.kind = "ForStmtAST" -> visitForStmtAST(W, node)

\* for (const auto& param : func->parameters)
\*     paramTypes.push_back(stringToType(param.first));
paramTypesOf(parameters) ==
    [i \in 1..Len(parameters) |-> stringToType(parameters[i][1])]

\* for (const auto& param : node.parameters)
\*     declareVariable(param.second, stringToType(param.first));
RECURSIVE declareParameters(_, _, _)
declareParameters(S, parameters, i) ==
    IF i > Len(parameters) THEN S
    ELSE declareParameters(
             declareVariable(S, parameters[i][2],
                             stringToType(parameters[i][1])),
             parameters, i + 1)

(***************************************************************************)
(* Programs handed to the analyser                                         *)
(*                                                                         *)
(* A program is a function f, or f followed by g.  The body of f is any    *)
(* sequence of at most MaxStmts statements of SemaStmts; g has one of a    *)
(* few bodies that refer back to f, to g itself and to a parameter.  No    *)
(* function is called h.                                                   *)
(***************************************************************************)
Nm_f == <<"f">>
Nm_g == <<"g">>
Nm_h == <<"h">>
Nm_x == <<"x">>
Nm_y == <<"y">>

\* The argument list of length n: 1, x, 1, x, ...
GenArgs(n) ==
    [i \in 1..n |-> IF i % 2 = 1 THEN NumberExprAST(1)
                    ELSE VariableExprAST(Nm_x)]

SemaStmts ==
    {VariableDeclAST(Str_int, Nm_x,
         <<BinaryExprAST("PLUS", NumberExprAST(2), NumberExprAST(3))>>),
     VariableDeclAST(Str_float, Nm_y,
         <<BinaryExprAST("PLUS", NumberExprAST(2), VariableExprAST(Nm_x))>>),
     VariableDeclAST(Str_float, Nm_x, <<VariableExprAST(Nm_x)>>),
     ReturnStmtAST(<<VariableExprAST(Nm_x)>>),
     ReturnStmtAST(
         <<BinaryExprAST("MULTIPLY", VariableExprAST(Nm_y),
                         NumberExprAST(3))>>),
     PrintStmtAST(CallExprAST(Nm_h, <<VariableExprAST(Nm_x)>>)),
     IfStmtAST(VariableExprAST(Nm_x),
               <<VariableDeclAST(Str_int, Nm_y, <<>>)>>,
               <<ReturnStmtAST(<<VariableExprAST(Nm_y)>>)>>)}
    \cup {ReturnStmtAST(<<CallExprAST(Nm_g, GenArgs(n))>>) : n \in 0..MaxArgs}

SemaBodies == UNION {[1..n -> SemaStmts] : n \in 0..MaxStmts}

SemaF ==
    {FunctionAST(Str_int, Nm_f, ps, body) :
         ps \in {<<>>, << <<Str_int, Nm_x>> >>}, body \in SemaBodies}

SemaG ==
    {FunctionAST(Str_float, Nm_g, ps, body) :
         ps \in {<<>>, << <<Str_int, Nm_x>> >>,
                 << <<Str_int, Nm_x>>, <<Str_float, Nm_y>> >>},
         body \in {<<>>,
                   <<ReturnStmtAST(<<VariableExprAST(Nm_x)>>)>>,
                   <<ReturnStmtAST(
                         <<CallExprAST(Nm_f, <<NumberExprAST(1)>>)>>)>>,
                   <<PrintStmtAST(CallExprAST(Nm_g, <<>>))>>}}

SemaPrograms ==
    {ProgramAST(<<f>>) : f \in SemaF}
    \cup {ProgramAST(<<f, g>>) : f \in SemaF, g \in SemaG}


(***************************************************************************)
(* Programs of one binary expression                                       *)
(*                                                                         *)
(* The program is  int f(double d, float y) { S }  void v() { }  where S   *)
(* is `return l op r;` or `int w = l op r;`, op any binary operator and l  *)
(* and r any two of ExprOperands: an operand of each Type, with and        *)
(* without an error of its own.  Nothing declares z and no function is     *)
(* called h.                                                               *)
(***************************************************************************)
Nm_d == <<"d">>
Nm_v == <<"v">>
Nm_w == <<"w">>
Nm_z == <<"z">>

ExprOperands ==
    {NumberExprAST(1),
     FloatExprAST(<<"1", ".", "5">>),
     StringExprAST(<<"s">>),
     CharExprAST("c"),
     VariableExprAST(Nm_d),
     VariableExprAST(Nm_y),
     VariableExprAST(Nm_z),
     CallExprAST(Nm_v, <<>>),
     CallExprAST(Nm_v, <<NumberExprAST(1)>>),
     CallExprAST(Nm_h, <<>>),
     CallExprAST(Nm_f, <<StringExprAST(<<"s">>), CharExprAST("c")>>),
     BinaryExprAST("PLUS", NumberExprAST(1), VariableExprAST(Nm_y))}

ExprStmts ==
    UNION {{ReturnStmtAST(<<BinaryExprAST(op, l, r)>>),
            VariableDeclAST(Str_int, Nm_w, <<BinaryExprAST(op, l, r)>>)} :
               op \in BinaryOperators, l \in ExprOperands,
               r \in ExprOperands}

ExprPrograms ==
    {ProgramAST(<<FunctionAST(Str_int, Nm_f,
                              << <<Str_double, Nm_d>>, <<Str_float, Nm_y>> >>,
                              <<s>>),
                  FunctionAST(Str_void, Nm_v, <<>>, <<>>)>>) :
         s \in ExprStmts}
(***************************************************************************)
(* Actions                                                                 *)
(***************************************************************************)
\* A faulty scanTokens that also returns at the first UNKNOWN token; it
\* shows that ScanTokensTotal tells the difference.
ScanTokens_StopAtUnknown ==
    /\ pc = "scanTokens"
    /\ LET r == scanToken(lexer) IN
       /\ lexer' = r.lexer
       /\ tokens' = Append(tokens, r.token)
       /\ pc' = IF r.token.type \in {"E_O_F", "UNKNOWN"}
                THEN "scanned" ELSE "scanTokens"
    /\ UNCHANGED <<sourcecode, parseVars, semaVars, mainVars, cerr>>

\* One turn of scanTokens' loop: scan a token and push it; the loop ends
\* with the push of the E_O_F token.
ScanTokens ==
    /\ pc = "scanTokens"
    /\ LET r == scanToken(lexer) IN
       /\ lexer' = r.lexer
       /\ tokens' = Append(tokens, r.token)
       /\ pc' = IF r.token.type = "E_O_F" THEN "scanned" ELSE "scanTokens"
    /\ UNCHANGED <<sourcecode, parseVars, semaVars, mainVars, cerr>>

\* One turn of the loop of Parser::parse: a function is parsed and pushed.
ParseFunction ==
    /\ pc = "parse"
    /\ ~Parser_isAtEnd(tokens, parser.current)
    /\ LET f == parseFunction(tokens, parser.current) IN
       /\ f.ok
       /\ parser' = [current |-> f.current,
                     functions |-> Append(parser.functions, f.value)]
    /\ UNCHANGED <<pc, lexVars, tokens, ast, semaVars, mainVars, cerr>>

\* A faulty catch that returns the functions parsed before the error; it
\* shows that ParseAllOrNothing tells the difference.
ParseCatch_KeepTree ==
    /\ pc = "parse"
    /\ ~Parser_isAtEnd(tokens, parser.current)
    /\ LET f == parseFunction(tokens, parser.current) IN
       /\ ~f.ok
       /\ parser' = [current |-> f.current, functions |-> <<>>]
       /\ cerr' = Append(cerr, [from |-> "Parser::parse", what |-> f.value])
    /\ ast' = <<ProgramAST(parser.functions)>>
    /\ pc' = "parsed"
    /\ UNCHANGED <<lexVars, tokens, semaVars, mainVars>>

\* parseFunction throws: the functions vector is destroyed with its
\* contents.  When the handler of Parser::parse catches the exception it
\* writes one line and returns nullptr; an exception it does not catch
\* leaves parse and, main having no handler, terminates the program.
ParseCatch ==
    /\ pc = "parse"
    /\ ~Parser_isAtEnd(tokens, parser.current)
    /\ LET f == parseFunction(tokens, parser.current) IN
       /\ ~f.ok
       /\ parser' = [current |-> f.current, functions |-> <<>>]
       /\ IF catches(exceptionClass(f.value))
          THEN /\ cerr' = Append(cerr, [from |-> "Parser::parse",
                                        what |-> f.value])
               /\ pc' = "parsed"
          ELSE /\ cerr' = cerr
               /\ pc' = "terminated"
    /\ ast' = <<>>
    /\ UNCHANGED <<lexVars, tokens, semaVars, mainVars>>

\* The loop of Parser::parse ends: the functions are moved into the Program.
ParseReturn ==
    /\ pc = "parse"
    /\ Parser_isAtEnd(tokens, parser.current)
    /\ ast' = <<ProgramAST(parser.functions)>>
    /\ parser' = [parser EXCEPT !.functions = <<>>]
    /\ pc' = "parsed"
    /\ UNCHANGED <<lexVars, tokens, semaVars, mainVars, cerr>>

\* Semantics::analyze up to its first program.accept(*this).
AnalyzeBegin ==
    /\ pc = "analyze"
    /\ sema' = [sema EXCEPT !.hasError = FALSE, !.functions = <<>>,
                            !.scopes = <<>>]
    /\ walk' = [accept |-> 1, fn |-> 1, st |-> 1]
    /\ pc' = "declare"
    /\ UNCHANGED <<lexVars, tokens, parseVars, verdict, trace, mainVars, cerr>>

\* visit(ProgramAST&), first loop: one function is declared.
DeclareFunction ==
    /\ pc = "declare"
    /\ walk.fn <= Len(ast[1].functions)
    /\ LET func == ast[1].functions[walk.fn] IN
       /\ sema' = declareFunction(sema, func.name,
                                  stringToType(func.returnType),
                                  paramTypesOf(func.parameters))
       /\ trace' = Append(trace, <<"declareFunction", walk.accept, walk.fn>>)
    /\ walk' = [walk EXCEPT !.fn = @ + 1]
    /\ UNCHANGED <<pc, lexVars, tokens, parseVars, verdict, mainVars, cerr>>

\* visit(ProgramAST&): the first loop ends and the second begins.
BeginBodies ==
    /\ pc = "declare"
    /\ walk.fn > Len(ast[1].functions)
    /\ walk' = [walk EXCEPT !.fn = 1]
    /\ pc' = "function"
    /\ UNCHANGED <<lexVars, tokens, parseVars, sema, verdict, trace,
                   mainVars, cerr>>

\* visit(FunctionAST&) up to the loop over the body.
EnterFunction ==
    /\ pc = "function"
    /\ walk.fn <= Len(ast[1].functions)
    /\ LET node == ast[1].functions[walk.fn] IN
       sema' = declareParameters(
                   enterScope([sema EXCEPT !.currentReturntype =
                                               stringToType(node.returnType)]),
                   node.parameters, 1)
    /\ trace' = Append(trace, <<"visit(FunctionAST)", walk.accept, walk.fn>>)
    /\ walk' = [walk EXCEPT !.st = 1]
    /\ pc' = "body"
    /\ UNCHANGED <<lexVars, tokens, parseVars, verdict, mainVars, cerr>>

\* A faulty body loop that leaves the function at the first statement
\* reached with hasError set; it shows that AnalyzeVisitsAll tells the
\* difference.
VisitStatement_StopOnError ==
    /\ pc = "body"
    /\ walk.st <= Len(ast[1].functions[walk.fn].body)
    /\ IF sema.hasError
       THEN /\ walk' = [walk EXCEPT
                          !.st = Len(ast[1].functions[walk.fn].body) + 1]
            /\ UNCHANGED <<sema, cerr, ast, trace>>
       ELSE /\ LET r == acceptStmt([sema |-> sema, cerr |-> cerr],
                                   ast[1].functions[walk.fn].body[walk.st])
               IN  /\ sema' = r.W.sema
                   /\ cerr' = r.W.cerr
                   /\ ast' = [ast EXCEPT
                                ![1].functions[walk.fn].body[walk.st] = r.node]
            /\ trace' = Append(trace,
                               <<"accept", walk.accept, walk.fn, walk.st>>)
            /\ walk' = [walk EXCEPT !.st = @ + 1]
    /\ UNCHANGED <<pc, lexVars, tokens, parser, verdict, mainVars>>

\* visit(FunctionAST&): one statement of the body accepts the visitor.
VisitStatement ==
    /\ pc = "body"
    /\ walk.st <= Len(ast[1].functions[walk.fn].body)
    /\ LET r == acceptStmt([sema |-> sema, cerr |-> cerr],
                           ast[1].functions[walk.fn].body[walk.st])
       IN  /\ sema' = r.W.sema
           /\ cerr' = r.W.cerr
           /\ ast' = [ast EXCEPT
                        ![1].functions[walk.fn].body[walk.st] = r.node]
    /\ trace' = Append(trace, <<"accept", walk.accept, walk.fn, walk.st>>)
    /\ walk' = [walk EXCEPT !.st = @ + 1]
    /\ UNCHANGED <<pc, lexVars, tokens, parser, verdict, mainVars>>

\* visit(FunctionAST&): the body is done, the frame is popped.
ExitFunction ==
    /\ pc = "body"
    /\ walk.st > Len(ast[1].functions[walk.fn].body)
    /\ sema' = exitScope(sema)
    /\ walk' = [walk EXCEPT !.fn = @ + 1]
    /\ pc' = "function"
    /\ UNCHANGED <<lexVars, tokens, parseVars, verdict, trace, mainVars, cerr>>

\* Semantics::analyze: the first program.accept(*this) returned and the
\* second one is called.
AcceptAgain ==
    /\ pc = "function"
    /\ walk.fn > Len(ast[1].functions)
    /\ walk.accept = 1
    /\ walk' = [accept |-> 2, fn |-> 1, st |-> 1]
    /\ pc' = "declare"
    /\ UNCHANGED <<lexVars, tokens, parseVars, sema, verdict, trace,
                   mainVars, cerr>>

\* Semantics::analyze: return !hasError.
AnalyzeReturn ==
    /\ pc = "function"
    /\ walk.fn > Len(ast[1].functions)
    /\ walk.accept = 2
    /\ verdict' = <<~sema.hasError>>
    /\ pc' = "analyzed"
    /\ UNCHANGED <<lexVars, tokens, parseVars, sema, walk, trace,
                   mainVars, cerr>>

\* A caller of Semantics::analyze calls it once more on the tree it has
\* just analysed; what the first call returned and left in the tree is
\* kept in the history.  main calls analyze once: the step belongs to
\* SpecSemaTwice only.
AnalyzeAgain ==
    /\ pc = "analyzed"
    /\ \A i \in DOMAIN trace : trace[i][1] # "analyze returned"
    /\ trace' = Append(trace, <<"analyze returned",
                                [verdict |-> verdict[1], tree |-> ast[1]]>>)
    /\ pc' = "analyze"
    /\ UNCHANGED <<lexVars, tokens, parseVars, sema, walk, verdict,
                   mainVars, cerr>>

\* main: Parser parser(tokens); parser.parse() is called.
MainParse ==
    /\ pc = "scanned"
    /\ parser' = ParserCtor
    /\ pc' = "parse"
    /\ UNCHANGED <<lexVars, tokens, ast, semaVars, mainVars, cerr>>

\* main: if (!ast) { ...; return 1; }
MainParsingFailed ==
    /\ pc = "parsed"
    /\ ast = <<>>
    /\ cerr' = Append(cerr, [from |-> "main", what |-> "Parsing failed!"])
    /\ exitCode' = <<1>>
    /\ pc' = "exit"
    /\ UNCHANGED <<lexVars, tokens, parseVars, semaVars, codegen>>

\* main: the tree is printed, Semantics sema is built, analyze is called.
MainAnalyze ==
    /\ pc = "parsed"
    /\ ast # <<>>
    /\ sema' = SemanticsCtor
    /\ pc' = "analyze"
    /\ UNCHANGED <<lexVars, tokens, parseVars, walk, verdict, trace,
                   mainVars, cerr>>

\* main: if (!sema.analyze(*ast)) { ...; return 1; }
MainSemanticFailed ==
    /\ pc = "analyzed"
    /\ verdict = <<FALSE>>
    /\ cerr' = Append(cerr,
                      [from |-> "main", what |-> "Semantic analysis failed!"])
    /\ exitCode' = <<1>>
    /\ pc' = "exit"
    /\ UNCHANGED <<lexVars, tokens, parseVars, semaVars, codegen>>

\* A faulty driver that generates code whatever analyze returned; it shows
\* that StagesInOrder tells the difference.
MainGenerate_Unconditional ==
    /\ pc = "analyzed"
    /\ codegen' = [codegen EXCEPT !.generated = TRUE]
    /\ pc' = "generated"
    /\ UNCHANGED <<lexVars, tokens, parseVars, semaVars, exitCode, cerr>>

\* main: codegen.initializeTargets(); codegen.generate(*ast);
MainGenerate ==
    /\ pc = "analyzed"
    /\ verdict = <<TRUE>>
    /\ codegen' = [codegen EXCEPT !.generated = TRUE]
    /\ pc' = "generated"
    /\ UNCHANGED <<lexVars, tokens, parseVars, semaVars, exitCode, cerr>>

\* main: if (!emitLLVMOnly) { emitAssembly or emitObjectCode }; return 0;
\* The two flags come from argv; they are read here only.
MainEmit ==
    /\ pc = "generated"
    /\ \E emitLLVMOnly \in BOOLEAN, emitAssembly \in BOOLEAN :
          codegen' = [codegen EXCEPT !.emitted =
                          IF emitLLVMOnly THEN "none"
                          ELSE IF emitAssembly THEN "assembly" ELSE "object"]
    /\ exitCode' = <<0>>
    /\ pc' = "exit"
    /\ UNCHANGED <<lexVars, tokens, parseVars, semaVars, cerr>>

(***************************************************************************)
(* Specifications                                                          *)
(***************************************************************************)
\* What every specification starts from, the input apart.
InitRest ==
    /\ lexer = LexerCtor
    /\ parser = ParserCtor
    /\ sema = SemanticsCtor
    /\ walk = [accept |-> 1, fn |-> 1, st |-> 1]
    /\ verdict = <<>>
    /\ trace = <<>>
    /\ codegen = [generated |-> FALSE, emitted |-> "none"]
    /\ exitCode = <<>>
    /\ cerr = <<>>

\* The scanner, on every source of at most MaxSrcLen characters.
InitLex ==
    /\ pc = "scanTokens"
    /\ sourcecode \in LexSources(MaxSrcLen)
    /\ tokens = <<>>
    /\ ast = <<>>
    /\ InitRest

NextLex == ScanTokens

SpecLex == InitLex /\ [][NextLex]_vars

\* The scanner again, on every source of at most MaxLiveLen characters;
\* scanTokens is a loop of one thread: it takes its next turn.
InitLexLive ==
    /\ pc = "scanTokens"
    /\ sourcecode \in LexSources(MaxLiveLen)
    /\ tokens = <<>>
    /\ ast = <<>>
    /\ InitRest

SpecLexLive == InitLexLive /\ [][NextLex]_vars /\ WF_vars(NextLex)

\* The scanner, on every source of at most MaxBlankLen characters of
\* BlankAlphabet.
InitLexBlank ==
    /\ pc = "scanTokens"
    /\ sourcecode \in BlankSources(MaxBlankLen)
    /\ tokens = <<>>
    /\ ast = <<>>
    /\ InitRest

SpecLexBlank == InitLexBlank /\ [][NextLex]_vars

\* The parser, on the token vectors of ParseInputs.
InitParse ==
    /\ pc = "parse"
    /\ sourcecode = <<>>
    /\ tokens \in ParseInputs
    /\ ast = <<>>
    /\ InitRest

NextParse == ParseFunction \/ ParseCatch \/ ParseReturn

SpecParse == InitParse /\ [][NextParse]_vars

\* The analyser, on the programs of SemaPrograms.
InitSema ==
    /\ pc = "analyze"
    /\ sourcecode = <<>>
    /\ tokens = <<>>
    /\ ast \in {<<p>> : p \in SemaPrograms}
    /\ InitRest

NextSema ==
    \/ AnalyzeBegin
    \/ DeclareFunction
    \/ BeginBodies
    \/ EnterFunction
    \/ VisitStatement
    \/ ExitFunction
    \/ AcceptAgain
    \/ AnalyzeReturn

SpecSema == InitSema /\ [][NextSema]_vars

\* The analyser called twice on the same tree.
NextSemaTwice == NextSema \/ AnalyzeAgain

SpecSemaTwice == InitSema /\ [][NextSemaTwice]_vars

\* The analyser, on the programs of ExprPrograms.
InitSemaExpr ==
    /\ pc = "analyze"
    /\ sourcecode = <<>>
    /\ tokens = <<>>
    /\ ast \in {<<p>> : p \in ExprPrograms}
    /\ InitRest

SpecSemaExpr == InitSemaExpr /\ [][NextSema]_vars

\* The driver, on the sources of MainSources.
Init ==
    /\ pc = "scanTokens"
    /\ sourcecode \in MainSources
    /\ tokens = <<>>
    /\ ast = <<>>
    /\ InitRest

Next ==
    \/ NextLex
    \/ MainParse
    \/ NextParse
    \/ MainParsingFailed
    \/ MainAnalyze
    \/ NextSema
    \/ MainSemanticFailed
    \/ MainGenerate
    \/ MainEmit

Spec == Init /\ [][Next]_vars

(***************************************************************************)
(* Properties                                                              *)
(***************************************************************************)
\* The positions of the sequence s that satisfy Test.
Where(s, Test(_)) == {i \in DOMAIN s : Test(s[i])}

UnknownTokens == Where(tokens, LAMBDA t : t.type = "UNKNOWN")

\* The characters no token starts with, and the '!' no '=' follows.
StrayCharacters ==
    {i \in DOMAIN sourcecode :
        \/ sourcecode[i] \in {"@", "\\"}
        \/ /\ sourcecode[i] = "!"
           /\ (i = Len(sourcecode) \/ sourcecode[i + 1] # "=")}

\* What scanTokens has returned, for the source it was given.
ScanResult ==
    /\ tokens # <<>>
    /\ tokens[Len(tokens)].type = "E_O_F"
    /\ \A i \in 1..(Len(tokens) - 1) : tokens[i].type # "E_O_F"
    /\ lexer.currentPos = Len(sourcecode)
    \* outside comments and literals, one UNKNOWN token per stray character
    /\ (\A i \in DOMAIN sourcecode : sourcecode[i] \notin {"/", "\"", "'"})
           => Cardinality(UnknownTokens) = Cardinality(StrayCharacters)
    \* a string that is never closed
    /\ (/\ sourcecode # <<>>
        /\ sourcecode[1] = "\""
        /\ \A i \in 2..Len(sourcecode) : sourcecode[i] # "\"")
           => /\ Len(tokens) = 2
              /\ tokens[1].type = "UNKNOWN"
              /\ tokens[1].lexeme = Str_UnterminatedString
    \* an empty character literal
    /\ (Len(sourcecode) >= 2 /\ sourcecode[1] = "'" /\ sourcecode[2] = "'")
           => /\ tokens[1].type = "UNKNOWN"
              /\ tokens[1].lexeme = Str_EmptyChar
    \* a character literal that is never closed
    /\ (/\ sourcecode # <<>>
        /\ sourcecode[1] = "'"
        /\ Len(sourcecode) >= 2 => sourcecode[2] \notin {"'", "\\"}
        /\ Len(sourcecode) >= 3 => sourcecode[3] # "'")
           => /\ tokens[1].type = "UNKNOWN"
              /\ tokens[1].lexeme = Str_UnterminatedChar

\* C1: for every source, scanTokens terminates, and what it returns ends
\* with the only E_O_F token, was scanned to the end of the source, and
\* holds an UNKNOWN token for an unknown character, a lone '!', a string or
\* character literal that is not closed and an empty character literal.
ScanTokensTotal ==
    /\ <>(pc = "scanned")
    /\ [](pc = "scanned" => ScanResult)

\* A source full of malformed input has been scanned to its end.
ScanTokensMalformed ==
    /\ pc = "scanned"
    /\ Len(sourcecode) = MaxLiveLen
    /\ sourcecode[1] = "@"
    /\ sourcecode[2] = "!"
    /\ sourcecode[3] = "'"
    /\ Cardinality(UnknownTokens) >= 3

SemanticErrors == Where(cerr, LAMBDA e : e.from = "Semantics::error")

SyntaxErrors == Where(cerr, LAMBDA e : e.from = "Parser::parse")

\* C2: parse returns a Program that holds every function of the token
\* vector, with nothing written to cerr, or it returns null with exactly
\* one diagnostic written and no function kept; nothing is written and no
\* tree exists while it runs.
ParseAllOrNothing ==
    /\ pc = "parse" => ast = <<>> /\ cerr = <<>>
    /\ pc = "parsed" =>
         \/ /\ ast # <<>>
            /\ cerr = <<>>
            /\ Parser_isAtEnd(tokens, parser.current)
            /\ ast[1].kind = "ProgramAST"
         \/ /\ ast = <<>>
            /\ Cardinality(SyntaxErrors) = 1
            /\ Len(cerr) = 1
            /\ parser.functions = <<>>

\* A grammar violation after a function that parsed: the function is gone.
ParseDiscardsFunctions ==
    /\ pc = "parsed"
    /\ ast = <<>>
    /\ Len(cerr) = 1
    /\ parseFunction(tokens, 0).ok
    /\ parser.current > parseFunction(tokens, 0).current

Range(s) == {s[i] : i \in DOMAIN s}

\* The top-level statements of the program: <<function, statement>>.
Statements ==
    {<<fn, st>> \in (1..Len(ast[1].functions)) \X (1..MaxStmts + 1) :
        st <= Len(ast[1].functions[fn].body)}

Statement(at) == ast[1].functions[at[1]].body[at[2]]

\* The statements `return n;` of a function with no parameter n and no
\* declaration of n before the statement.
FaultyReturns ==
    {at \in Statements :
        /\ Statement(at).kind = "ReturnStmtAST"
        /\ Statement(at).expression[1].kind = "VariableExprAST"
        /\ LET n == Statement(at).expression[1].name
               func == ast[1].functions[at[1]]
           IN  /\ \A p \in Range(func.parameters) : p[2] # n
               /\ \A j \in 1..(at[2] - 1) :
                     ~(func.body[j].kind = "VariableDeclAST"
                       /\ func.body[j].name = n)}

ErrorsOf(what) == {i \in SemanticErrors : cerr[i].what.what = what}

\* C3: when analyze has returned, every function was visited and every
\* statement of every function accepted the visitor, whatever errors came
\* before it; every `return n;` of an undeclared n has its error written;
\* and analyze returned true exactly when it wrote no error.
AnalyzeVisitsAll ==
    pc = "analyzed" =>
        /\ \A fn \in DOMAIN ast[1].functions :
              \E a \in 1..2 : <<"visit(FunctionAST)", a, fn>> \in Range(trace)
        /\ \A at \in Statements :
              \E a \in 1..2 : <<"accept", a, at[1], at[2]>> \in Range(trace)
        /\ Cardinality(ErrorsOf("Undefined variable: "))
               >= Cardinality(FaultyReturns)
        /\ verdict = <<SemanticErrors = {}>>

\* The first statement of the first function is in error, and so are a
\* later statement of that function and a statement of the next function.
AnalyzeAfterFirstError ==
    /\ pc = "analyzed"
    /\ Len(ast[1].functions) = 2
    /\ <<1, 1>> \in FaultyReturns
    /\ <<2, 1>> \in FaultyReturns
    /\ Len(ast[1].functions[1].body) >= 2
    /\ ErrorsOf("Undefined function: ") # {}
    /\ verdict = <<FALSE>>

\* The rank of the stage the driver is in.
Stage ==
    CASE pc \in {"scanTokens", "scanned"} -> 1
      [] pc \in {"parse", "parsed"} -> 2
      [] pc \in {"analyze", "declare", "function", "body", "analyzed"} -> 3
      [] pc = "generated" -> 4
      [] pc = "exit" -> 5

StageInvariant ==
    \* parse starts with the scan complete
    /\ Stage >= 2 => tokens # <<>> /\ tokens[Len(tokens)].type = "E_O_F"
    /\ Stage = 1 => ast = <<>> /\ cerr = <<>>
    \* analysis starts only with a tree
    /\ pc \in {"analyze", "declare", "function", "body", "analyzed",
               "generated"} => ast # <<>>
    /\ (trace # <<>> \/ verdict # <<>>) => ast # <<>>
    /\ Stage <= 2 => trace = <<>> /\ verdict = <<>>
    \* generation and emission start only after analyze returned true
    /\ codegen.generated => verdict = <<TRUE>>
    /\ codegen.emitted # "none" => codegen.generated
    /\ pc = "generated" => codegen.generated
    /\ exitCode = <<0>> => codegen.generated
    \* after a syntax failure
    /\ SyntaxErrors # {} =>
          /\ ast = <<>>
          /\ sema = SemanticsCtor
          /\ trace = <<>>
          /\ verdict = <<>>
          /\ ~codegen.generated
          /\ codegen.emitted = "none"
          /\ exitCode \in {<<>>, <<1>>}
    \* after a semantic failure
    /\ verdict = <<FALSE>> =>
          /\ ~codegen.generated
          /\ codegen.emitted = "none"
          /\ exitCode \in {<<>>, <<1>>}

\* C4: the driver goes through scan, parse, analyze, generate in that
\* order and never back; analysis starts only if parse returned a tree,
\* generation and emission only if analyze returned true; after a syntax
\* failure neither analysis nor generation runs, after a semantic failure
\* generation does not run.
StagesInOrder ==
    /\ []StageInvariant
    /\ [][Stage' >= Stage]_vars

\* A source went through every stage and object code was emitted.
StagesAllRun ==
    /\ pc = "exit"
    /\ exitCode = <<0>>
    /\ codegen.emitted = "object"
    /\ trace # <<>>
    /\ ast # <<>>

TokensOf(type) == Where(tokens, LAMBDA t : t.type = type)

\* C5: a token vector with more '{' than '}' ends inside a body or block
\* that is not closed, and parse returns no tree for it.
UnclosedBodyRejected ==
    (pc = "parsed"
     /\ Cardinality(TokensOf("LBRACE")) > Cardinality(TokensOf("RBRACE")))
        => ast = <<>>

\* The precedence levels as the grammar states them, 0 for every other
\* token.
PrecedenceLevel(op) ==
    CASE op = "ASSIGN" -> 1
      [] op \in {"EQUAL_EQUAL", "NOT_EQUAL", "LESS_THAN", "GRE_THAN",
                 "LESS_EQUAL", "GREATER_EQUAL"} -> 2
      [] op \in {"PLUS", "MINUS"} -> 3
      [] op \in {"MULTIPLY", "DIVIDE", "MODULO"} -> 4
      [] OTHER -> 0

\* The node of a one-token operand: a digit or a name.
Operand(t) ==
    IF t.type = "NUMBER" THEN NumberExprAST(DigitValue(t.lexeme[1]))
    ELSE VariableExprAST(t.lexeme)

TokenTypes(from, to) == [i \in 1..(to - from + 1) |-> tokens[from + i - 1].type]

\* The token vector is  int f ( ) { a op1 b op2 c ;  with op2 of a
\* strictly higher level than op1, and ends there or after one '}'.
TwoOperators ==
    /\ Len(tokens) \in {12, 13}
    /\ TokenTypes(1, 5) = <<"KW_INT", "IDENTIFIER", "LPAR", "RPAR", "LBRACE">>
    /\ \A i \in {6, 8, 10} : tokens[i].type \in {"IDENTIFIER", "NUMBER"}
    /\ PrecedenceLevel(tokens[7].type) > 0
    /\ PrecedenceLevel(tokens[9].type) > PrecedenceLevel(tokens[7].type)
    /\ tokens[11].type = "SEMICOLON"
    /\ Len(tokens) = 13 => tokens[12].type = "RBRACE"

\* C6: a op1 b op2 c, op2 of a strictly higher precedence than op1, parses
\* to BinaryOp(op1, a, BinaryOp(op2, b, c)).
HigherPrecedenceNestsRight ==
    (pc = "parsed" /\ TwoOperators) =>
        /\ ast # <<>>
        /\ Len(ast[1].functions) = 1
        /\ ast[1].functions[1].body =
              <<PrintStmtAST(
                    BinaryExprAST(tokens[7].type, Operand(tokens[6]),
                        BinaryExprAST(tokens[9].type, Operand(tokens[8]),
                                      Operand(tokens[10]))))>>

\* 1 + 2 * 3, whatever the operands, has been parsed.
PlusTimesParsed ==
    /\ pc = "parsed"
    /\ TwoOperators
    /\ tokens[7].type = "PLUS"
    /\ tokens[9].type = "MULTIPLY"
    /\ ast # <<>>

\* The signature of func is in the function table.
Declared(func) ==
    <<func.name,
      [returnType |-> stringToType(func.returnType),
       paramTypes |-> [k \in DOMAIN func.parameters |->
                          stringToType(func.parameters[k][1])]]>>
        \in Range(sema.functions)

\* C7: from the moment the first body is analysed, the function table
\* holds the signature of every function of the program, and no call to a
\* function of the program, declared before or after its caller, is
\* reported as an undefined function.
FunctionsDeclaredBeforeBodies ==
    /\ pc \in {"function", "body", "analyzed"} =>
          \A func \in Range(ast[1].functions) : Declared(func)
    /\ ast # <<>> =>
          \A i \in ErrorsOf("Undefined function: ") :
              \A func \in Range(ast[1].functions) :
                  cerr[i].what.found # func.name

\* The call of fn's statement st, when that statement is `return c(...);`.
IsReturnOfCall(at) ==
    /\ Statement(at).kind = "ReturnStmtAST"
    /\ Statement(at).expression[1].kind = "CallExprAST"

\* f calls g, declared after it, and g calls f: no error is reported.
MutualRecursionResolved ==
    /\ pc = "analyzed"
    /\ Len(ast[1].functions) = 2
    /\ \E st \in 1..MaxStmts :
          /\ <<1, st>> \in Statements
          /\ IsReturnOfCall(<<1, st>>)
          /\ Statement(<<1, st>>).expression[1].callee = Nm_g
    /\ <<2, 1>> \in Statements
    /\ IsReturnOfCall(<<2, 1>>)
    /\ Statement(<<2, 1>>).expression[1].callee = Nm_f
    /\ SemanticErrors = {}
    /\ verdict = <<TRUE>>

\* The program is  int f() { return x; }
OnlyUndeclaredVariable ==
    /\ Len(ast[1].functions) = 1
    /\ ast[1].functions[1].parameters = <<>>
    /\ Len(ast[1].functions[1].body) = 1
    /\ <<1, 1>> \in FaultyReturns

\* The program is  int f(int x) { return g(1, x); }  float g(int x) { }
OnlyArityMismatch ==
    /\ Len(ast[1].functions) = 2
    /\ Len(ast[1].functions[1].parameters) = 1
    /\ Len(ast[1].functions[1].body) = 1
    /\ IsReturnOfCall(<<1, 1>>)
    /\ ast[1].functions[1].body[1].expression[1].callee = Nm_g
    /\ Len(ast[1].functions[1].body[1].expression[1].args) = 2
    /\ Len(ast[1].functions[2].parameters) = 1
    /\ ast[1].functions[2].body = <<>>

\* C8: a program whose only fault is one reference to an undeclared
\* variable, or one call with the wrong number of arguments, makes analyze
\* report exactly one error and return false.
OneFaultOneError ==
    (pc = "analyzed" /\ (OnlyUndeclaredVariable \/ OnlyArityMismatch)) =>
        /\ Cardinality(SemanticErrors) = 1
        /\ verdict = <<FALSE>>

\* The first function of the program that is called name, as <<func>>.
Callee(name) ==
    LET found == {i \in DOMAIN ast[1].functions :
                     ast[1].functions[i].name = name}
    IN  IF found = {} THEN <<>>
        ELSE <<ast[1].functions[CHOOSE i \in found :
                                    \A j \in found : i <= j]>>

\* The statements `return c(args);` where c is a function of the program
\* that takes another number of arguments.
MismatchedCalls ==
    {at \in Statements :
        /\ IsReturnOfCall(at)
        /\ LET call == Statement(at).expression[1] IN
           /\ Callee(call.callee) # <<>>
           /\ Len(Callee(call.callee)[1].parameters) # Len(call.args)}

\* The visitor has been at the expression: its type is set, or it names a
\* variable nothing declares and that was reported.
Annotated(expr) ==
    \/ expr.inferredType # "Invalid"
    \/ /\ expr.kind = "VariableExprAST"
       /\ \E i \in ErrorsOf("Undefined variable: ") :
             cerr[i].what.found = expr.name

\* C9: when analyze has returned, a call with the wrong number of
\* arguments has its error written, every one of its arguments was
\* visited and annotated, and its inferredType is the return type its
\* callee declares.
MismatchedCallStillAnnotated ==
    pc = "analyzed" =>
        \A at \in MismatchedCalls :
            LET call == Statement(at).expression[1] IN
            /\ \E i \in ErrorsOf("Incorrect number of arguments for function ") :
                  cerr[i].what.found = call.callee
            /\ \A k \in DOMAIN call.args : Annotated(call.args[k])
            /\ call.inferredType =
                  stringToType(Callee(call.callee)[1].returnType)

\* g(1, x) was analysed where g takes fewer arguments and x is a parameter.
MismatchedCallAnalysed ==
    /\ pc = "analyzed"
    /\ \E at \in MismatchedCalls :
          LET call == Statement(at).expression[1] IN
          /\ Len(call.args) = 2
          /\ call.args[1].inferredType = "Int"
          /\ call.args[2].inferredType = "Int"
          /\ call.inferredType = "Float"

\* The declarations `T n = l + r;` of the program.
AdditionInitializers ==
    {at \in Statements :
        /\ Statement(at).kind = "VariableDeclAST"
        /\ Statement(at).initializer # <<>>
        /\ Statement(at).initializer[1].kind = "BinaryExprAST"
        /\ Statement(at).initializer[1].op = "PLUS"}

\* C10: when analyze has returned, an integer literal carries its value
\* as constantValue, the addition of two integer literals carries their
\* sum, and an addition with a variable operand carries none.
ConstantsFolded ==
    pc = "analyzed" =>
        \A at \in AdditionInitializers :
            LET add == Statement(at).initializer[1] IN
            /\ add.left.kind = "NumberExprAST"
                  => add.left.constantValue = <<add.left.value>>
            /\ (add.left.kind = "NumberExprAST"
                /\ add.right.kind = "NumberExprAST")
                  => add.constantValue = <<add.left.value + add.right.value>>
            /\ add.right.kind = "VariableExprAST" => add.constantValue = <<>>


\* C11: when analyze has returned from a second call on the same tree, the
\* tree, and with it the inferredType and the constantValue of every node,
\* is the one the first call left, and the second call returned what the
\* first returned.
AnalyzeTwiceSame ==
    pc = "analyzed" =>
        \A e \in Range(trace) :
            e[1] = "analyze returned" =>
                /\ ast[1] = e[2].tree
                /\ verdict[1] = e[2].verdict

\* The second call has returned on a program of two functions with number
\* literals among its annotated nodes, and both calls reported errors.
AnalyzedTwice ==
    /\ pc = "analyzed"
    /\ \E e \in Range(trace) : e[1] = "analyze returned"
    /\ Len(ast[1].functions) = 2
    /\ AdditionInitializers # {}
    /\ verdict = <<FALSE>>

\* The first position from i on where text s has a newline, or the
\* position after its end.
EndOfLine(s, i) ==
    LET ends == {j \in i..Len(s) : s[j] = "\n"} \cup {Len(s) + 1} IN
    CHOOSE j \in ends : \A k \in ends : j <= k

\* The position after the first "*/" of s from i on, or the position after
\* its end when the comment is never closed.
AfterComment(s, i) ==
    LET ends == {j + 2 : j \in {k \in i..(Len(s) - 1) :
                                   s[k] = "*" /\ s[k + 1] = "/"}}
                \cup {Len(s) + 1}
    IN  CHOOSE j \in ends : \A k \in ends : j <= k

\* Text s from position i on is made of whitespace, line comments and
\* block comments only.
RECURSIVE OnlyBlanks(_, _)
OnlyBlanks(s, i) ==
    IF i > Len(s) THEN TRUE
    ELSE IF s[i] \in {" ", "\t", "\r", "\n"} THEN OnlyBlanks(s, i + 1)
    ELSE IF s[i] = "/" /\ i < Len(s) /\ s[i + 1] = "/"
    THEN OnlyBlanks(s, EndOfLine(s, i + 2))
    ELSE IF s[i] = "/" /\ i < Len(s) /\ s[i + 1] = "*"
    THEN OnlyBlanks(s, AfterComment(s, i + 2))
    ELSE FALSE

\* C12: when scanTokens has returned on a source made of whitespace, line
\* comments and block comments only, a never closed block comment
\* included, the vector holds exactly one token and it is E_O_F.
BlankSourceScansToEOF ==
    pc = "scanned" /\ OnlyBlanks(sourcecode, 1) =>
        /\ Len(tokens) = 1
        /\ tokens[1].type = "E_O_F"

\* scanTokens has returned on a line comment, a newline and a block comment
\* that is never closed.
BlankSourceScanned ==
    /\ pc = "scanned"
    /\ sourcecode = <<"/", "/", "\n", "/", "*">>
    /\ OnlyBlanks(sourcecode, 1)


\* Position p of the source comes at or before position q, lines first.
AtOrBefore(p, q) ==
    \/ p.line < q.line
    \/ p.line = q.line /\ p.column <= q.column

\* C13: in the vector scanTokens builds, each token starts at or after the
\* start of the token before it, by line first and column second, and the
\* final E_O_F token is no exception.
TokenPositionsOrdered ==
    \A i \in 1..(Len(tokens) - 1) : AtOrBefore(tokens[i], tokens[i + 1])

\* scanTokens has returned a token, a token of the next line that starts
\* at a smaller column, and the E_O_F token.
TokensOverTwoLines ==
    /\ pc = "scanned"
    /\ Len(tokens) = 3
    /\ tokens[2].line > tokens[1].line
    /\ tokens[2].column < tokens[1].column
    /\ tokens[3].type = "E_O_F"

\* The positions of the newlines of the source.
Newlines == {i \in DOMAIN sourcecode : sourcecode[i] = "\n"}

\* The number of characters of the source after its last newline.
AfterLastNewline ==
    Cardinality({i \in DOMAIN sourcecode : \A n \in Newlines : n < i})

\* C14: when scanTokens has consumed the whole source, every newline of it,
\* whether between tokens, in a block comment, in a string literal or in a
\* character literal, has raised line by one and reset column so that the
\* character after it is at column 1: line is one more than the number of
\* newlines and column is one more than the number of characters after the
\* last newline.
EveryNewlineCounted ==
    pc = "scanned" /\ lexer.currentPos = Len(sourcecode) =>
        /\ lexer.line = 1 + Cardinality(Newlines)
        /\ lexer.column = 1 + AfterLastNewline

\* The visitor has been at the expression: it is Annotated, or it calls a
\* function nothing declares and that was reported.
Visited(expr) ==
    \/ Annotated(expr)
    \/ /\ expr.kind = "CallExprAST"
       /\ \E i \in ErrorsOf("Undefined function: ") :
             cerr[i].what.found = expr.callee

\* The visitor has been at the expression and at every expression under it.
RECURSIVE VisitedThroughout(_)
VisitedThroughout(expr) ==
    /\ Visited(expr)
    /\ expr.kind = "BinaryExprAST" =>
           VisitedThroughout(expr.left) /\ VisitedThroughout(expr.right)
    /\ expr.kind = "CallExprAST" =>
           \A i \in DOMAIN expr.args : VisitedThroughout(expr.args[i])

\* C15: when analyze has returned, the expression of every return
\* statement and the initializer of every declaration have been visited and
\* annotated with every expression under them, the arguments of a call of
\* an undeclared function included.
EveryExpressionVisited ==
    pc = "analyzed" =>
        \A at \in Statements :
            /\ Statement(at).kind = "ReturnStmtAST" =>
                   VisitedThroughout(Statement(at).expression[1])
            /\ (Statement(at).kind = "VariableDeclAST"
                  /\ Statement(at).initializer # <<>>) =>
                   VisitedThroughout(Statement(at).initializer[1])

\* C16: when parse has returned on a vector that holds an UNKNOWN token,
\* in whatever place, it has returned no tree.
UnknownTokenRejected ==
    pc = "parsed" /\ UnknownTokens # {} => ast = <<>>

\* parse has returned on a vector whose UNKNOWN token is neither the first
\* token nor the last before E_O_F, and the tokens but that one are those
\* of a program.
UnknownTokenAmidProgram ==
    /\ pc = "parsed"
    /\ \E k \in UnknownTokens :
          /\ 1 < k
          /\ k + 1 < Len(tokens)
          /\ tokens[k + 1].type = "RPAR"
          /\ tokens[Len(tokens) - 1].type = "RBRACE"

\* C17: no exception leaves parse: the program is never terminated by one,
\* and when parse has returned on a vector in which the parser raises a
\* failure, a literal that std::stol rejects included, it has returned no
\* tree.
ParseNeverThrows ==
    /\ pc # "terminated"
    /\ pc = "parsed" /\ ~parseProgram(tokens, 0, <<>>).ok => ast = <<>>

\* parse has returned after a first function was parsed and std::stol
\* threw at a literal of the second that no long holds.
LiteralOutOfRange ==
    /\ pc = "parsed"
    /\ ast = <<>>
    /\ \E i \in SyntaxErrors :
          /\ exceptionClass(cerr[i].what) = "std::out_of_range"
          /\ Len(cerr[i].what.found) >= Len(LongMaxDigits)
          /\ tokens[6].type = "RBRACE"

\* The declarations made in the frame of a function before the statement
\* at `at` is visited, oldest first, as <<type name, variable name>>: the
\* parameters, then the declarations among the statements before it.
DeclarationsBefore(at) ==
    LET func == ast[1].functions[at[1]]
        RECURSIVE locals(_)
        locals(j) ==
            IF j = 0 THEN <<>>
            ELSE IF func.body[j].kind = "VariableDeclAST"
            THEN Append(locals(j - 1),
                        <<func.body[j].type, func.body[j].name>>)
            ELSE locals(j - 1)
    IN  func.parameters \o locals(at[2] - 1)

\* C18: when analyze has returned, a `return n;` that follows two or more
\* declarations of n in the frame of its function carries the type of the
\* most recent of them.
LastDeclarationWins ==
    pc = "analyzed" =>
        \A at \in Statements :
            (Statement(at).kind = "ReturnStmtAST"
               /\ Statement(at).expression[1].kind = "VariableExprAST") =>
                LET decls == DeclarationsBefore(at)
                    hits == {i \in DOMAIN decls :
                                decls[i][2] = Statement(at).expression[1].name}
                IN  hits # {} =>
                        \E last \in hits :
                            /\ \A i \in hits : i <= last
                            /\ Statement(at).expression[1].inferredType
                                   = stringToType(decls[last][1])

\* The place of the first token of the given type after place k of the
\* vector, or 0 when there is none.
FirstAfter(k, type) ==
    LET places == {i \in DOMAIN tokens : i > k /\ tokens[i].type = type} IN
    IF places = {} THEN 0 ELSE CHOOSE i \in places : \A j \in places : i <= j

\* C19: when parse has returned the tree of a function whose first
\* statement is a for statement, the For node holds an initializer exactly
\* when something stands before the first ';', be it a declaration or an
\* expression, a condition exactly when something stands between the two
\* ';', and an increment exactly when something stands before the ')'.
ForClausesStored ==
    (/\ pc = "parsed"
     /\ ast # <<>>
     /\ Len(tokens) > 7
     /\ tokens[6].type = "KW_FOR") =>
        LET for == ast[1].functions[1].body[1]
            first == FirstAfter(7, "SEMICOLON")
            second == FirstAfter(first, "SEMICOLON")
        IN  /\ for.kind = "ForStmtAST"
            /\ for.initializer # <<>> <=> first # 8
            /\ for.condition # <<>> <=> second # first + 1
            /\ for.increment # <<>> <=> tokens[second + 1].type # "RPAR"

\* The token vector is  int f ( ) { a op1 b op2 c ;  with op1 and op2 of
\* the same level, and ends there or after one '}'.
SameLevelOperators ==
    /\ Len(tokens) \in {12, 13}
    /\ TokenTypes(1, 5) = <<"KW_INT", "IDENTIFIER", "LPAR", "RPAR", "LBRACE">>
    /\ \A i \in {6, 8, 10} : tokens[i].type \in {"IDENTIFIER", "NUMBER"}
    /\ PrecedenceLevel(tokens[7].type) > 0
    /\ PrecedenceLevel(tokens[9].type) = PrecedenceLevel(tokens[7].type)
    /\ tokens[11].type = "SEMICOLON"
    /\ Len(tokens) = 13 => tokens[12].type = "RBRACE"

\* C20: a op1 b op2 c, op1 and op2 of the same precedence, two '-' and two
\* '=' among them, parses to BinaryOp(op2, BinaryOp(op1, a, b), c).
EqualPrecedenceNestsLeft ==
    (pc = "parsed" /\ SameLevelOperators) =>
        /\ ast # <<>>
        /\ Len(ast[1].functions) = 1
        /\ ast[1].functions[1].body =
              <<PrintStmtAST(
                    BinaryExprAST(tokens[9].type,
                        BinaryExprAST(tokens[7].type, Operand(tokens[6]),
                                      Operand(tokens[8])),
                        Operand(tokens[10])))>>

\* a = b = c, whatever the operands, has been parsed in a closed body.
AssignAssignParsed ==
    /\ pc = "parsed"
    /\ SameLevelOperators
    /\ tokens[7].type = "ASSIGN"
    /\ tokens[9].type = "ASSIGN"
    /\ tokens[12].type = "RBRACE"
    /\ ast # <<>>

\* The statement of f in a program of ExprPrograms, and its expression.
ExprStatement == ast[1].functions[1].body[1]

TheExpression ==
    IF ExprStatement.kind = "ReturnStmtAST" THEN ExprStatement.expression[1]
    ELSE ExprStatement.initializer[1]

\* The Type each operand of ExprOperands is given by its own visit.
OperandType(operand) ==
    CASE operand.kind = "NumberExprAST" -> "Int"
      [] operand.kind = "FloatExprAST" -> "Float"
      [] operand.kind = "StringExprAST" -> "String"
      [] operand.kind = "CharExprAST" -> "Char"
      [] operand.kind = "VariableExprAST" ->
             (CASE operand.name = Nm_d -> "Double"
                [] operand.name = Nm_y -> "Float"
                [] OTHER -> "Invalid")
      [] operand.kind = "CallExprAST" ->
             (CASE operand.callee = Nm_v -> "Void"
                [] operand.callee = Nm_f -> "Int"
                [] OTHER -> "Invalid")
      [] operand.kind = "BinaryExprAST" -> "Float"

\* C21: when analyze has returned, both operands of the binary node carry
\* the type of their own visit, and the node is Float when one of them is
\* Float and Int otherwise, be the other Double, Char, String, Void or
\* Invalid, whatever the operator.
BinaryTypeFloatOrInt ==
    pc = "analyzed" =>
        LET e == TheExpression IN
        /\ e.left.inferredType = OperandType(e.left)
        /\ e.right.inferredType = OperandType(e.right)
        /\ e.inferredType =
              IF "Float" \in {e.left.inferredType, e.right.inferredType}
              THEN "Float" ELSE "Int"

\* analyze has returned on  return d % h();  a Double and an Invalid
\* operand: the node is Int.
DoubleAndInvalidAnalysed ==
    /\ pc = "analyzed"
    /\ ExprStatement.kind = "ReturnStmtAST"
    /\ TheExpression.op = "MODULO"
    /\ TheExpression.left.inferredType = "Double"
    /\ TheExpression.right.kind = "CallExprAST"
    /\ TheExpression.right.inferredType = "Invalid"
    /\ TheExpression.inferredType = "Int"

\* The operands of the binary node that name the undeclared z.
UndeclaredOperands ==
    {o \in {"left", "right"} :
        /\ TheExpression[o].kind = "VariableExprAST"
        /\ TheExpression[o].name = Nm_z}

\* The operand has no error of its own: it is neither a call nor z.
Faultless(operand) ==
    /\ operand.kind # "CallExprAST"
    /\ operand.kind = "VariableExprAST" => operand.name # Nm_z

\* An accept of the program has returned: the first, or both.
AcceptsReturned ==
    IF pc = "analyzed" THEN 2
    ELSE IF pc = "function" /\ walk.fn > Len(ast[1].functions) THEN walk.accept
    ELSE 0

\* C22: each accept of a program whose one fault is the reference to the
\* undeclared z leaves that reference Invalid and records one 'Undefined
\* variable' error for each reference to z; the binary node, the
\* declaration or the return statement around it records none.
UndeclaredReferenceOneError ==
    (/\ AcceptsReturned > 0
     /\ UndeclaredOperands # {}
     /\ \A o \in {"left", "right"} \ UndeclaredOperands :
           Faultless(TheExpression[o])) =>
        /\ \A o \in UndeclaredOperands :
              TheExpression[o].inferredType = "Invalid"
        /\ \A i \in SemanticErrors :
              /\ cerr[i].what.what = "Undefined variable: "
              /\ cerr[i].what.found = Nm_z
        /\ Cardinality(SemanticErrors)
               = AcceptsReturned * Cardinality(UndeclaredOperands)

\* The first accept of  int w = z + 1;  has returned.
UndeclaredInInitializer ==
    /\ AcceptsReturned = 1
    /\ ExprStatement.kind = "VariableDeclAST"
    /\ UndeclaredOperands = {"left"}
    /\ TheExpression.op = "PLUS"
    /\ TheExpression.right.kind = "NumberExprAST"
    /\ Cardinality(SemanticErrors) = 1

\* The statements `if (c) { ... T n; ... } ...` of the program that a
\* statement using n in `return n * k;` follows in the same function.
DeclaredInIfUsedAfter ==
    {at \in Statements :
        /\ Statement(at).kind = "IfStmtAST"
        /\ <<at[1], at[2] + 1>> \in Statements
        /\ LET next == Statement(<<at[1], at[2] + 1>>) IN
           /\ next.kind = "ReturnStmtAST"
           /\ next.expression[1].kind = "BinaryExprAST"
           /\ next.expression[1].left.kind = "VariableExprAST"
           /\ \E i \in DOMAIN Statement(at).thenBranch :
                 /\ Statement(at).thenBranch[i].kind = "VariableDeclAST"
                 /\ Statement(at).thenBranch[i].name
                        = next.expression[1].left.name}

\* The name n is used in a `return n * k;` before the statement at `at`, in
\* the same function.
UsedBefore(at, n) ==
    \E j \in 1..(at[2] - 1) :
        LET stmt == Statement(<<at[1], j>>) IN
        /\ stmt.kind = "ReturnStmtAST"
        /\ stmt.expression[1].kind = "BinaryExprAST"
        /\ stmt.expression[1].left.kind = "VariableExprAST"
        /\ stmt.expression[1].left.name = n

\* C23: while the body of a function is analysed the scope stack holds
\* exactly one frame, whatever if statements the body has, and when analyze
\* has returned, a variable declared in the body of an if and used in the
\* statement after that if carries a declared type there, and no
\* 'Undefined variable' error names it unless a statement before the if
\* used it.
OneFrameThroughoutBody ==
    /\ pc = "body" => Len(sema.scopes) = 1
    /\ pc = "analyzed" =>
          \A at \in DeclaredInIfUsedAfter :
              LET use == Statement(<<at[1], at[2] + 1>>).expression[1].left
              IN  /\ use.inferredType # "Invalid"
                  /\ ~UsedBefore(at, use.name) =>
                        \A i \in ErrorsOf("Undefined variable: ") :
                            cerr[i].what.found # use.name

\* analyze has returned on a function whose body is an if that declares y
\* followed by a return that uses y.
LeakedFromIfAnalysed ==
    /\ pc = "analyzed"
    /\ <<1, 1>> \in DeclaredInIfUsedAfter
    /\ Statement(<<1, 2>>).expression[1].left.inferredType = "Int"

\* C24: when main has returned on a program that calls printf, with no
\* argument, one or two, and declares no function of that name, semantic
\* analysis passed, code was generated and main returned 0.
PrintfReachesCodegen ==
    (pc = "exit" /\ sourcecode \in PrintfSources) =>
        /\ verdict = <<TRUE>>
        /\ codegen.generated
        /\ exitCode = <<0>>

\* The token scanned from a source that is one character literal, when it is
\* the only token before E_O_F.
OneToken(type, lexeme) ==
    /\ Len(tokens) = 2
    /\ tokens[1].type = type
    /\ tokens[1].lexeme = lexeme

\* C25: a source that is one character literal is scanned to one token and
\* E_O_F: 'c' and '\c' to a CHAR_LITERAL of the characters between the
\* quotes, '' to an UNKNOWN token 'Empty character literal', and 'c with no
\* closing quote to an UNKNOWN token 'Unterminated character literal'.
CharLiteralOneToken ==
    pc = "scanned" =>
        \A c \in LexAlphabet \ {"'", "\\"} :
            /\ sourcecode = <<"'", c, "'">>
                   => OneToken("CHAR_LITERAL", <<c>>)
            /\ sourcecode = <<"'", "\\", c, "'">>
                   => OneToken("CHAR_LITERAL", <<"\\", c>>)
            /\ sourcecode = <<"'", "'">>
                   => OneToken("UNKNOWN", Str_EmptyChar)
            /\ sourcecode = <<"'", c>>
                   => OneToken("UNKNOWN", Str_UnterminatedChar)

\* The operands of the binary node that are a call of the callee with n
\* arguments.
CallOperands(callee, n) ==
    {o \in {"left", "right"} :
        /\ TheExpression[o].kind = "CallExprAST"
        /\ TheExpression[o].callee = callee
        /\ Len(TheExpression[o].args) = n}

\* C26: each accept of  int f(double d, float y) { S }  void v() { }
\* records one 'Undefined variable' error for each reference to the
\* undeclared z, one 'Undefined function' error for each call of the
\* undeclared h, one 'Incorrect number of arguments' error for each call of
\* v with an argument, and no other error: none for an initializer or a
\* returned value of another type than declared, for the String and Char
\* arguments given for the parameters of f, or for the types of operands.
ErrorsInThreeSituations ==
    AcceptsReturned > 0 =>
        /\ Cardinality(ErrorsOf("Undefined variable: "))
               = AcceptsReturned * Cardinality(UndeclaredOperands)
        /\ Cardinality(ErrorsOf("Undefined function: "))
               = AcceptsReturned * Cardinality(CallOperands(Nm_h, 0))
        /\ Cardinality(ErrorsOf("Incorrect number of arguments for function "))
               = AcceptsReturned * Cardinality(CallOperands(Nm_v, 1))
        /\ SemanticErrors
               = ErrorsOf("Undefined variable: ")
                 \cup ErrorsOf("Undefined function: ")
                 \cup ErrorsOf("Incorrect number of arguments for function ")

\* analyze has returned true on  int w = f("s", 'c') + 1.5;  a Float
\* initializer for an int, from a call whose arguments are a String and a
\* Char for a double and a float.
MismatchesAnalysed ==
    /\ pc = "analyzed"
    /\ verdict = <<TRUE>>
    /\ ExprStatement.kind = "VariableDeclAST"
    /\ ExprStatement.type = Str_int
    /\ TheExpression.inferredType = "Float"
    /\ CallOperands(Nm_f, 2) = {"left"}
    /\ TheExpression.left.args[1].inferredType = "String"
    /\ TheExpression.left.inferredType = "Int"
    /\ SemanticErrors = {}

\* The statements `return n;` of FaultyReturns whose n is a parameter or a
\* local of another function of the program.
ForeignReturns ==
    {at \in FaultyReturns :
        \E fn \in DOMAIN ast[1].functions \ {at[1]} :
            LET other == ast[1].functions[fn]
                n == Statement(at).expression[1].name
            IN  \/ \E p \in Range(other.parameters) : p[2] = n
                \/ \E j \in DOMAIN other.body :
                      /\ other.body[j].kind = "VariableDeclAST"
                      /\ other.body[j].name = n}

\* C27: the scope stack never holds more than one frame and is empty
\* between functions and when analyze has returned; and a `return n;` of a
\* function that declares no n is Invalid and has its 'Undefined variable'
\* error although n is a parameter or a local of another function.
FrameOfOneFunction ==
    /\ Len(sema.scopes) <= 1
    /\ pc \in {"declare", "function", "analyzed"} => sema.scopes = <<>>
    /\ pc = "analyzed" =>
          \A at \in ForeignReturns :
              /\ Statement(at).expression[1].inferredType = "Invalid"
              /\ \E i \in ErrorsOf("Undefined variable: ") :
                    cerr[i].what.found = Statement(at).expression[1].name

\* analyze has returned on  int f(int x) { return x; }  float g() { return
\* x; }: the x of f is Int and the x of g is Invalid.
ParameterOfOtherFunction ==
    /\ pc = "analyzed"
    /\ Len(ast[1].functions) = 2
    /\ ast[1].functions[1].parameters = << <<Str_int, Nm_x>> >>
    /\ Len(ast[1].functions[1].body) = 1
    /\ <<2, 1>> \in ForeignReturns
    /\ Statement(<<1, 1>>).kind = "ReturnStmtAST"
    /\ Statement(<<1, 1>>).expression[1].kind = "VariableExprAST"
    /\ Statement(<<1, 1>>).expression[1].inferredType = "Int"
    /\ Statement(<<2, 1>>).expression[1].inferredType = "Invalid"

\* The declarations `T n = n;` of the program.
SelfInitialized ==
    {at \in Statements :
        /\ Statement(at).kind = "VariableDeclAST"
        /\ Statement(at).initializer # <<>>
        /\ Statement(at).initializer[1].kind = "VariableExprAST"
        /\ Statement(at).initializer[1].name = Statement(at).name}

\* The types of the declarations of n made before the statement at `at` is
\* visited.
EarlierTypes(at, n) ==
    {stringToType(d[1]) : d \in {e \in Range(DeclarationsBefore(at)) : e[2] = n}}

\* C28: when analyze has returned, the n that initializes `T n = n;` is
\* Invalid and has its 'Undefined variable' error where no parameter and no
\* declaration before the statement names n, and carries the type of a
\* declaration made before the statement where there is one; the
\* declaration it initializes is not what it resolves to.
InitializerBeforeDeclaration ==
    pc = "analyzed" =>
        \A at \in SelfInitialized :
            LET n == Statement(at).name
                use == Statement(at).initializer[1]
            IN  IF EarlierTypes(at, n) = {}
                THEN /\ use.inferredType = "Invalid"
                     /\ \E i \in ErrorsOf("Undefined variable: ") :
                           cerr[i].what.found = n
                ELSE use.inferredType \in EarlierTypes(at, n)

\* analyze has returned on  int f() { float x = x; }  with the initializer
\* Invalid and its error written by each of the two accepts.
SelfInitializedUndeclared ==
    /\ pc = "analyzed"
    /\ Len(ast[1].functions) = 1
    /\ ast[1].functions[1].parameters = <<>>
    /\ SelfInitialized = {<<1, 1>>}
    /\ Statement(<<1, 1>>).type = Str_float
    /\ Statement(<<1, 1>>).initializer[1].inferredType = "Invalid"
    /\ Cardinality(ErrorsOf("Undefined variable: ")) = 2

\* The Return nodes among the statements stmts and in the branches and
\* bodies of their if, while and for statements.
RECURSIVE ReturnsIn(_)
ReturnsIn(stmts) ==
    UNION {CASE stmts[i].kind = "ReturnStmtAST" -> {stmts[i]}
             [] stmts[i].kind = "IfStmtAST" ->
                    ReturnsIn(stmts[i].thenBranch)
                    \cup ReturnsIn(stmts[i].elseBranch)
             [] stmts[i].kind \in {"WhileStmtAST", "ForStmtAST"} ->
                    ReturnsIn(stmts[i].body)
             [] OTHER -> {} : i \in DOMAIN stmts}

\* The places of the token vector where ';' follows `return`.
BareReturns ==
    {k \in 1..(Len(tokens) - 1) :
        tokens[k].type = "KW_RETURN" /\ tokens[k + 1].type = "SEMICOLON"}

\* C29: when parse has returned a tree, every Return node of it, in a
\* function body or in the body of an if, a while or a for, holds an
\* expression; and for a token vector with `return ;` parse has returned
\* null with a syntax error.
ReturnHoldsExpression ==
    pc = "parsed" =>
        /\ ast # <<>> =>
              \A fn \in DOMAIN ast[1].functions :
                  \A r \in ReturnsIn(ast[1].functions[fn].body) :
                      Len(r.expression) = 1
        /\ BareReturns # {} => ast = <<>> /\ SyntaxErrors # {}

\* parse has returned the tree of  int b() { if (h < 0) { return n; } else
\* { s; } }  with its Return node in the then branch.
ReturnInBranchParsed ==
    /\ pc = "parsed"
    /\ ast # <<>>
    /\ Len(ast[1].functions) = 1
    /\ Len(ast[1].functions[1].body) = 1
    /\ ast[1].functions[1].body[1].kind = "IfStmtAST"
    /\ ReturnsIn(ast[1].functions[1].body)
           = {ReturnStmtAST(<<VariableExprAST(<<"n">>)>>)}

\* C30: on every token vector that ends with E_O_F, while parse runs and
\* when it has returned or thrown, a tree or none, the cursor is the index
\* of a token of the vector, at most that of E_O_F, so that peek reads a
\* token of the vector; it is at E_O_F when a tree is returned; and no step
\* moves it back.
CursorWithinTokens ==
    /\ [](/\ parser.current \in 0..(Len(tokens) - 1)
          /\ Parser_peek(tokens, parser.current) \in Range(tokens)
          /\ (pc = "parsed" /\ ast # <<>>) =>
                 /\ parser.current = Len(tokens) - 1
                 /\ Parser_isAtEnd(tokens, parser.current))
    /\ [][parser'.current >= parser.current]_vars

\* parse has returned null on a vector of several tokens that ends inside a
\* function: the cursor is at E_O_F, where consume threw.
FailedAtEndOfFile ==
    /\ pc = "parsed"
    /\ ast = <<>>
    /\ Len(tokens) > 3
    /\ parser.current = Len(tokens) - 1
    /\ \E i \in SyntaxErrors : cerr[i].what.what = " unexpected end of file"
====
